---- MODULE Spec2Model ----
(***************************************************************************)
(* A model of the LazyCook backend: the plan-gated request handlers of     *)
(* main.py, the plan tables of plans.py and baby_final.py, and the         *)
(* context assembly, document context and shared context cache of          *)
(* firestore_manager.py.                                                   *)
(*                                                                         *)
(* Python strings whose characters matter (ids, header values, cache keys) *)
(* are sequences of one-character strings, so that upper(), lower(),       *)
(* strip(), f-string formatting and startswith() are computed as the code  *)
(* computes them.                                                          *)
(***************************************************************************)
EXTENDS Integers, Sequences, FiniteSets, TLC

VARIABLES
    chatHistory,         \* users/{u}/chatHistory/{doc}/conversations: stored records
    chats,               \* users/{u}/chats: the registered chat documents
    documents,           \* users/{u}/documents, most recent upload first
    cached_context,      \* _shared_context_cache: cache key -> context
    context_cache_time,  \* _shared_context_cache_time: cache key -> build time
    now,                 \* datetime.now(), in minutes
    last,                \* the last FirestoreManager call: its arguments and result
    hist,                \* how many calls are still to come (bounds the runs)
    resp,                \* the last HTTP request of main.py and its response
    inflight,            \* the calls that have begun and not returned yet
    USERS,               \* auth.USERS: email -> {"plan": ...}
    taskStore            \* users/{u}/tasks and the top-level tasks collection

vars == <<chatHistory, chats, documents, cached_context, context_cache_time,
          now, last, hist, resp, inflight, USERS, taskStore>>

(***************************************************************************)
(* Python values.                                                          *)
(***************************************************************************)
\* None: a one-element sequence no string of characters equals.
None == <<"<None>">>

\* str.lower() / str.upper() on the characters the model uses.
LowerTable ==
    [A |-> "a", B |-> "b", D |-> "d", E |-> "e", F |-> "f", G |-> "g", I |-> "i", K |-> "k",
     L |-> "l", M |-> "m", O |-> "o", P |-> "p", R |-> "r", T |-> "t", U |-> "u",
     X |-> "x"]

UpperTable ==
    [a |-> "A", b |-> "B", d |-> "D", e |-> "E", f |-> "F", g |-> "G", i |-> "I", k |-> "K",
     l |-> "L", m |-> "M", o |-> "O", p |-> "P", r |-> "R", t |-> "T", u |-> "U",
     x |-> "X"]

Lower(s) ==
    [i \in 1..Len(s) |-> IF s[i] \in DOMAIN LowerTable THEN LowerTable[s[i]] ELSE s[i]]

Upper(s) ==
    [i \in 1..Len(s) |-> IF s[i] \in DOMAIN UpperTable THEN UpperTable[s[i]] ELSE s[i]]

IsSpace(c) == c \in {" ", "\t", "\n"}

\* str.strip(): drop the leading and the trailing whitespace.
Strip(s) ==
    LET keep == {i \in 1..Len(s) : ~IsSpace(s[i])}
    IN  IF keep = {} THEN <<>>
        ELSE LET lo == CHOOSE i \in keep : \A j \in keep : i <= j
                 hi == CHOOSE i \in keep : \A j \in keep : j <= i
             IN  SubSeq(s, lo, hi)

\* Python truthiness of an Optional[str].
Truthy(s) == s # None /\ s # <<>>

\* a or b, on Optional[str].
OrElse(a, b) == IF Truthy(a) THEN a ELSE b

\* str.startswith(prefix)
StartsWith(s, prefix) ==
    Len(prefix) <= Len(s) /\ SubSeq(s, 1, Len(prefix)) = prefix

(***************************************************************************)
(* plans.py and baby_final.py: the plan tables.                            *)
(***************************************************************************)
GO == <<"G", "O">>
PRO == <<"P", "R", "O">>
ULTRA == <<"U", "L", "T", "R", "A">>

gemini == <<"g", "e", "m", "i", "n", "i">>
grok == <<"g", "r", "o", "k">>
mixed == <<"m", "i", "x", "e", "d">>

PLAN_TO_FUNCTION == (GO :> gemini) @@ (PRO :> grok) @@ (ULTRA :> mixed)

PLANS == DOMAIN PLAN_TO_FUNCTION

FUNCTIONS == {PLAN_TO_FUNCTION[p] : p \in PLANS}

PLAN_TO_MODEL == (GO :> gemini) @@ (PRO :> grok) @@ (ULTRA :> mixed)

ValueError == <<"<ValueError>">>
TypeError == <<"<TypeError>">>

\* allowed_function_for_plan: the function name, or ValueError for an unknown plan.
allowed_function_for_plan(plan) ==
    IF plan \in DOMAIN PLAN_TO_FUNCTION THEN PLAN_TO_FUNCTION[plan] ELSE ValueError

ai_type_1 == <<"a", "i", "_", "t", "y", "p", "e", "_", "1">>
ai_type_2 == <<"a", "i", "_", "t", "y", "p", "e", "_", "2">>
ai_type_3 == <<"a", "i", "_", "t", "y", "p", "e", "_", "3">>

aliases ==
    (gemini :> gemini) @@ (grok :> grok) @@ (mixed :> mixed) @@
    (ai_type_1 :> gemini) @@ (ai_type_2 :> grok) @@ (ai_type_3 :> mixed)

\* A normalisation that knows no aliases.
normalize_without_aliases(value) ==
    IF value = None THEN None ELSE Strip(Lower(value))

normalize_requested_function(value) ==
    LET v == Lower(Strip(value))
    IN  IF v \in DOMAIN aliases THEN aliases[v] ELSE v

(***************************************************************************)
(* baby_final.py: run_assistant_by_plan and the three backends.            *)
(***************************************************************************)
\* What a provider call can do: answer, find no API key, or raise inside the
\* backend's own try block.
BackendOutcomes == {"response", "no_key", "provider_error"}

\* A backend that answers with gemini when its API key is missing.
BackendWithFallback(model, outcome) ==
    [model |-> IF outcome = "no_key" THEN gemini ELSE model,
     kind |-> IF outcome = "provider_error" THEN "error" ELSE "response"]

\* gemini() / grok() / mixed(): always a dict carrying "model", with
\* "response" on success and "error" otherwise; nothing is raised.
Backend(model, outcome) ==
    [model |-> model, kind |-> IF outcome = "response" THEN "response" ELSE "error"]

\* run_assistant_by_plan(plan, ...): [raised, result, backends run].
run_assistant_by_plan(plan, outcome) ==
    LET plan_upper == Strip(Upper(plan))
    IN  IF plan_upper \notin DOMAIN PLAN_TO_MODEL
        THEN [raised |-> ValueError, result |-> None, backends |-> <<>>]
        ELSE LET model == PLAN_TO_MODEL[plan_upper]
             IN  [raised |-> None, result |-> Backend(model, outcome),
                  backends |-> <<model>>]

\* The parameters run_assistant_by_plan declares.
RunAssistantParams ==
    {"plan", "prompt", "user_id", "conversation_limit", "document_limit"}

\* The keyword arguments _ai_run_handler passes to it.
HandlerCallKeywords ==
    {"plan", "prompt", "user_id", "conversation_limit", "document_limit",
     "chat_id", "document_id", "document_ids"}

\* Python binds a call's keywords to the callee's parameters before the body
\* runs; a keyword the callee does not declare raises TypeError.
CallRunAssistant(plan, outcome) ==
    IF HandlerCallKeywords \subseteq RunAssistantParams
    THEN run_assistant_by_plan(plan, outcome)
    ELSE [raised |-> TypeError, result |-> None, backends |-> <<>>]

(***************************************************************************)
(* main.py: the request handlers.                                          *)
(***************************************************************************)
\* The plan a handler resolves: header, else the user's plan, else GO.
ResolvePlan(x_user_plan, user_plan) ==
    Strip(Upper(OrElse(x_user_plan, OrElse(user_plan, GO))))

NoBody == [model |-> None, kind |-> "none"]

Response(status, detail, calls, backends, body) ==
    [status |-> status, detail |-> detail, calls |-> calls,
     backends |-> backends, body |-> body]

\* _ai_run_handler, shared by /chat and /ai/run.  An exception that leaves the
\* handler without becoming an HTTPException is answered 500 by the framework.
ai_run_handler(x_user_plan, user_plan, model, importOk, outcome) ==
    LET resolved == ResolvePlan(x_user_plan, user_plan)
        requested == normalize_requested_function(model)
        allowed == allowed_function_for_plan(resolved)
        run == CallRunAssistant(resolved, outcome)
    IN  IF ~importOk
        THEN Response(500, "AI module import failed", 0, <<>>, NoBody)
        ELSE IF model # None /\ requested \notin FUNCTIONS
        THEN Response(400, "Invalid model", 0, <<>>, NoBody)
        ELSE IF model # None /\ allowed = ValueError
        THEN Response(500, "unhandled ValueError", 0, <<>>, NoBody)
        ELSE IF model # None /\ requested # allowed
        THEN Response(403, "Upgrade plan to access this AI", 0, <<>>, NoBody)
        ELSE IF allowed = ValueError
        THEN Response(500, "unhandled ValueError", 0, <<>>, NoBody)
        ELSE IF run.raised = ValueError
        THEN Response(400, "ValueError", 1, run.backends, NoBody)
        ELSE IF run.raised # None
        THEN Response(500, "AI processing failed", 1, run.backends, NoBody)
        ELSE Response(200, "ok", 1, run.backends, run.result)

\* What process_uploaded_file returns: a Document, or None (it catches every
\* exception itself).
ProcessOutcomes == {"document", "none"}

\* upload_file: [response, whether the temporary file was created, whether
\* it still exists when the response is produced].  The HTTPException(400)
\* raised for a None document is caught by the inner "except Exception" and
\* raised again with status 500.
upload_file(x_user_plan, user_plan, importOk, processed) ==
    LET resolved == ResolvePlan(x_user_plan, user_plan)
        allowed == allowed_function_for_plan(resolved)
        noTmp == [created |-> FALSE, exists |-> FALSE]
        cleaned == [created |-> TRUE, exists |-> FALSE]
    IN  IF allowed = ValueError
        THEN [response |-> Response(500, "Upload failed", 0, <<>>, NoBody), tmp |-> noTmp]
        ELSE IF ~importOk
        THEN [response |-> Response(500, "AI module import failed", 0, <<>>, NoBody),
              tmp |-> noTmp]
        ELSE IF processed = "document"
        THEN [response |-> Response(200, "ok", 0, <<>>, NoBody), tmp |-> cleaned]
        ELSE [response |-> Response(500, "Error processing file", 0, <<>>, NoBody),
              tmp |-> cleaned]

\* Header and payload values the requests are drawn from.
PlanHeaders ==
    {None, <<>>, <<"g", "o">>, <<" ", "p", "r", "o", " ">>, ULTRA,
     <<"F", "R", "E", "E">>, <<" ">>}

\* get_current_user always returns one of the three plans.
UserPlans == {GO, PRO, ULTRA}

RequestedModels ==
    {None, gemini, <<" ", "G", "r", "o", "k">>, mixed, ai_type_1, ai_type_3,
     <<"g", "p", "t">>, <<>>}

NoTmp == [created |-> FALSE, exists |-> FALSE]

\* Not answered yet.
Pending == Response(0, "pending", 0, <<>>, NoBody)

\* A request, what its environment does (whether the AI module imports, what
\* the provider and the file processing do), and its response.
Request(endpoint, x_user_plan, user_plan, model, importOk, outcome, processed, response, tmp) ==
    [endpoint |-> endpoint, x_user_plan |-> x_user_plan, user_plan |-> user_plan,
     model |-> model, importOk |-> importOk, outcome |-> outcome,
     processed |-> processed, response |-> response, tmp |-> tmp]

RespInit ==
    Request("none", None, GO, None, TRUE, "response", "document", Pending, NoTmp)

\* The requests that arrive.
Requests ==
    {Request(e, h, p, m, ok, o, "document", Pending, NoTmp) :
        e \in {"/chat", "/ai/run"}, h \in PlanHeaders, p \in UserPlans,
        m \in RequestedModels, ok \in BOOLEAN, o \in BackendOutcomes}
    \cup
    {Request("/upload-file", h, p, None, ok, "response", d, Pending, NoTmp) :
        h \in PlanHeaders, p \in UserPlans, ok \in BOOLEAN, d \in ProcessOutcomes}

\* POST /chat
ai_run_chat ==
    /\ resp.endpoint = "/chat"
    /\ resp.response = Pending
    /\ resp' = [resp EXCEPT !.response =
                   ai_run_handler(resp.x_user_plan, resp.user_plan, resp.model,
                                  resp.importOk, resp.outcome)]
    /\ UNCHANGED <<chatHistory, chats, documents, cached_context,
                   context_cache_time, now, last, hist, inflight, USERS, taskStore>>

\* POST /ai/run
ai_run_legacy ==
    /\ resp.endpoint = "/ai/run"
    /\ resp.response = Pending
    /\ resp' = [resp EXCEPT !.response =
                   ai_run_handler(resp.x_user_plan, resp.user_plan, resp.model,
                                  resp.importOk, resp.outcome)]
    /\ UNCHANGED <<chatHistory, chats, documents, cached_context,
                   context_cache_time, now, last, hist, inflight, USERS, taskStore>>

\* POST /upload-file
UploadFile ==
    /\ resp.endpoint = "/upload-file"
    /\ resp.response = Pending
    /\ \E r \in {upload_file(resp.x_user_plan, resp.user_plan, resp.importOk,
                             resp.processed)} :
          resp' = [resp EXCEPT !.response = r.response, !.tmp = r.tmp]
    /\ UNCHANGED <<chatHistory, chats, documents, cached_context,
                   context_cache_time, now, last, hist, inflight, USERS, taskStore>>

(***************************************************************************)
(* firestore_manager.py: the data the model runs on.                       *)
(***************************************************************************)
UA == <<"a">>
UB == <<"a", "_", "b">>

\* User ids are arbitrary strings; one of them extends the other with "_".
Users == {UA, UB}

CHAT_C == <<"c">>
CHAT_BC == <<"b", "_", "c">>

ChatIds == {CHAT_BC, CHAT_C}

\* The order in which Firestore streams documents: by document id.
ChatOrder == <<CHAT_BC, CHAT_C>>

\* The document that holds the unsaved session: chatHistory/newChat.
NEW_CHAT == <<"n", "e", "w", "C", "h", "a", "t">>

W_the == <<"t", "h", "e">>
W_Pasta == <<"P", "a", "s", "t", "a">>
W_pasta == <<"p", "a", "s", "t", "a">>
W_eggs == <<"e", "g", "g", "s">>

\* The Conversation objects callers hold: id -> fields.  user_len and ai_len
\* are len(user_message) and len(ai_response); text is the words of
\* user_message, ai_response and topics.
Conversation ==
    [k1 |-> [user_id |-> UA, timestamp |-> 1, text |-> <<W_Pasta>>,
             user_len |-> 20, ai_len |-> 40],
     k2 |-> [user_id |-> UA, timestamp |-> 2, text |-> <<W_eggs>>,
             user_len |-> 20, ai_len |-> 40],
     k3 |-> [user_id |-> UB, timestamp |-> 3, text |-> <<W_pasta>>,
             user_len |-> 20, ai_len |-> 40],
     b1 |-> [user_id |-> UA, timestamp |-> 11, text |-> <<>>,
             user_len |-> 600, ai_len |-> 1200],
     b2 |-> [user_id |-> UA, timestamp |-> 12, text |-> <<>>,
             user_len |-> 600, ai_len |-> 1200],
     b3 |-> [user_id |-> UA, timestamp |-> 13, text |-> <<>>,
             user_len |-> 600, ai_len |-> 1200],
     b4 |-> [user_id |-> UA, timestamp |-> 14, text |-> <<>>,
             user_len |-> 600, ai_len |-> 1200],
     b5 |-> [user_id |-> UA, timestamp |-> 15, text |-> <<>>,
             user_len |-> 600, ai_len |-> 1200],
     s0 |-> [user_id |-> UA, timestamp |-> 10, text |-> <<>>,
             user_len |-> 100, ai_len |-> 180],
     s1 |-> [user_id |-> UA, timestamp |-> 16, text |-> <<>>,
             user_len |-> 100, ai_len |-> 180],
     s2 |-> [user_id |-> UA, timestamp |-> 17, text |-> <<>>,
             user_len |-> 500, ai_len |-> 1000]]

\* The conversations the save requests of the main specification carry.
SavedIds == {"k1", "k2", "k3"}

\* The long conversations of the length specification.
LongIds == {"b1", "b2", "b3", "b4", "b5", "s0", "s1", "s2"}

\* A stored conversation record: the conversation and its chat_id field.
Stored(id, chat_id) == [id |-> id, chat_id |-> chat_id]

Timestamp(rec) == Conversation[rec.id].timestamp

\* A list left in the order it came in.
KeepOrder(s) == s

\* list.sort(key=timestamp, reverse=True): stable, so equal timestamps keep
\* their order.
RECURSIVE SortDescending(_)
SortDescending(s) ==
    IF s = <<>> THEN <<>>
    ELSE LET i == CHOOSE i \in 1..Len(s) :
                    \A j \in 1..Len(s) :
                        \/ Timestamp(s[i]) > Timestamp(s[j])
                        \/ Timestamp(s[i]) = Timestamp(s[j]) /\ i <= j
         IN  <<s[i]>> \o SortDescending(SubSeq(s, 1, i - 1) \o SubSeq(s, i + 1, Len(s)))

\* s[:n]
Take(s, n) == SubSeq(s, 1, IF n < Len(s) THEN n ELSE Len(s))

\* A collection's documents (one per id) as some sequence.
RECURSIVE AsSeq(_)
AsSeq(S) ==
    IF S = {} THEN <<>>
    ELSE LET r == CHOOSE r \in S : TRUE IN <<r>> \o AsSeq(S \ {r})

\* collection.order_by('timestamp', DESCENDING).limit(n).stream()
OrderedQuery(collection, n) == Take(SortDescending(AsSeq(collection)), n)

\* FirestoreManager(conversation_limit=70)
conversation_limit == 70

\* Optional[int]: None, or an integer.
NoneInt == [given |-> FALSE, value |-> 0]

SomeInt(n) == [given |-> TRUE, value |-> n]

\* Optional[List[str]]
NoneList == [given |-> FALSE, value |-> <<>>]

SomeList(l) == [given |-> TRUE, value |-> l]

\* "if document_ids:" -- neither None nor an empty list.
TruthyList(l) == l.given /\ l.value # <<>>

\* A limit that counts only when it is positive.
positive_limit(provided_limit) ==
    IF provided_limit.given /\ provided_limit.value > 0
    THEN provided_limit.value
    ELSE conversation_limit

\* _get_effective_limit
get_effective_limit(provided_limit) ==
    IF provided_limit.given /\ provided_limit.value >= 0
    THEN provided_limit.value
    ELSE conversation_limit

\* get_session_conversations: the newChat document of the user.
get_session_conversations(history, user_id, limit) ==
    OrderedQuery(history[<<user_id, NEW_CHAT>>], get_effective_limit(SomeInt(limit)))

\* _get_chat_specific_conversations
get_chat_specific_conversations(history, user_id, chat_id, limit) ==
    IF <<user_id, chat_id>> \in DOMAIN history
    THEN OrderedQuery(history[<<user_id, chat_id>>], limit)
    ELSE <<>>

per_chat_limit == 5

\* The saved chats of get_recent_conversations, chat by chat.
RECURSIVE SavedChatConversations(_, _, _, _)
SavedChatConversations(history, registered, user_id, order) ==
    IF order = <<>> THEN <<>>
    ELSE (IF Head(order) \in registered
          THEN OrderedQuery(history[<<user_id, Head(order)>>], per_chat_limit)
          ELSE <<>>)
         \o SavedChatConversations(history, registered, user_id, Tail(order))

\* get_recent_conversations: newChat, then every registered chat, sorted and cut.
get_recent_conversations(history, registered, user_id, limit) ==
    LET lim == get_effective_limit(SomeInt(limit))
        all_conversations ==
            get_session_conversations(history, user_id, lim)
            \o SavedChatConversations(history, registered, user_id, ChatOrder)
    IN  Take(SortDescending(all_conversations), lim)

(***************************************************************************)
(* get_conversation_context: resolution, cache, relevance filter, build.   *)
(***************************************************************************)
\* str(True) / str(False) / str(None) / str(int), as f-strings format them.
BoolStr(b) == IF b THEN <<"T", "r", "u", "e">> ELSE <<"F", "a", "l", "s", "e">>

NoneStr == <<"N", "o", "n", "e">>

Digits == <<"0", "1", "2", "3", "4", "5", "6", "7", "8", "9">>

RECURSIVE IntStr(_)
IntStr(n) ==
    IF n < 10 THEN <<Digits[n + 1]>>
    ELSE IntStr(n \div 10) \o <<Digits[(n % 10) + 1]>>

Str(v) == IF v = None THEN NoneStr ELSE v

\* cache_key = f"{user_id}_{chat_id}_{limit}_{real_is_new_chat}"
CacheKey(user_id, chat_id, limit, real_is_new_chat) ==
    user_id \o <<"_">> \o Str(chat_id) \o <<"_">> \o IntStr(limit) \o <<"_">>
    \o BoolStr(real_is_new_chat)

\* self._cache_ttl = timedelta(minutes=5)
cache_ttl == 5

stops ==
    {W_the, <<"i", "s">>, <<"a", "t">>, <<"w", "h", "i", "c", "h">>, <<"o", "n">>,
     <<"a", "n", "d">>, <<"a">>, <<"a", "n">>, <<"i", "n">>, <<"t", "o">>,
     <<"o", "f">>, <<"f", "o", "r">>, <<"i", "t">>, <<"t", "h", "i", "s">>,
     <<"t", "h", "a", "t">>, <<"i">>, <<"m", "y">>, <<"m", "e">>}

\* The keywords of current_query (given as its words, i.e. after split()).
QueryKeywords(current_query) ==
    IF ~Truthy(current_query) THEN {}
    ELSE {Lower(current_query[i]) : i \in
            {j \in 1..Len(current_query) :
                Lower(current_query[j]) \notin stops /\ Len(current_query[j]) > 3}}

\* conv_words of a conversation: its text, lower-cased and split.
ConvWords(rec) ==
    LET text == Conversation[rec.id].text
    IN  {Lower(text[i]) : i \in 1..Len(text)}

\* The conversations of a list that share a word with the query keywords.
RECURSIVE Relevant(_, _)
Relevant(convs, query_keywords) ==
    IF convs = <<>> THEN <<>>
    ELSE (IF query_keywords \cap ConvWords(Head(convs)) # {}
          THEN <<Head(convs)>> ELSE <<>>)
         \o Relevant(Tail(convs), query_keywords)

\* [c for c in convs if c.id not in ids]
RECURSIVE NotIn(_, _)
NotIn(convs, ids) ==
    IF convs = <<>> THEN <<>>
    ELSE (IF Head(convs).id \in ids THEN <<>> ELSE <<Head(convs)>>)
         \o NotIn(Tail(convs), ids)

MAX_CONTEXT_CHARS == 8000

\* len(message[:cut] + "..." if len(message) > cut else message)
ShownLen(len, cut) == IF len > cut THEN cut + 3 ELSE len

\* len(f" [Chat: {conv.chat_id}]") when the conversation carries a chat_id.
ChatInfoLen(chat_id) == IF Truthy(chat_id) THEN 8 + Len(chat_id) + 1 ELSE 0

\* len(conv_text) of the n-th block:
\* "\n--- Conv {n}{chat_info} ---\n" "USER: {user_msg}\n" "AI: {ai_msg}"
BlockLen(rec, n) ==
    10 + Len(IntStr(n)) + ChatInfoLen(rec.chat_id) + 5
    + 6 + ShownLen(Conversation[rec.id].user_len, 500) + 1
    + 4 + ShownLen(Conversation[rec.id].ai_len, 1000)

\* len(f"=== CONTEXT (NEW: {real_is_new_chat}) ===")
HeaderLen(real_is_new_chat) == 18 + Len(BoolStr(real_is_new_chat)) + 5

\* A loop that skips a block that does not fit and goes on to the next.
RECURSIVE RenderFitting(_, _, _)
RenderFitting(convs, n, current_length) ==
    IF convs = <<>> THEN <<>>
    ELSE LET rec == Head(convs)
         IN  IF current_length + BlockLen(rec, n) > MAX_CONTEXT_CHARS
             THEN RenderFitting(Tail(convs), n, current_length)
             ELSE <<[n |-> n, id |-> rec.id, chat_id |-> rec.chat_id]>>
                  \o RenderFitting(Tail(convs), n + 1, current_length + BlockLen(rec, n))

\* The loop over conversations: the blocks appended before the first one that
\* would take current_length over MAX_CONTEXT_CHARS.
RECURSIVE RenderBlocks(_, _, _)
RenderBlocks(convs, n, current_length) ==
    IF convs = <<>> THEN <<>>
    ELSE LET rec == Head(convs)
         IN  IF current_length + BlockLen(rec, n) > MAX_CONTEXT_CHARS
             THEN <<>>
             ELSE <<[n |-> n, id |-> rec.id, chat_id |-> rec.chat_id]>>
                  \o RenderBlocks(Tail(convs), n + 1, current_length + BlockLen(rec, n))

\* "No previous conversation history available."
NoHistory == [text |-> "no history", new |-> FALSE, blocks |-> <<>>]

\* The context string: header, blocks, footer, joined by "\n".
BuildContext(conversations, real_is_new_chat) ==
    [text |-> "context", new |-> real_is_new_chat,
     blocks |-> RenderBlocks(conversations, 1, HeaderLen(real_is_new_chat))]

RECURSIVE SumBlockLen(_)
SumBlockLen(blocks) ==
    IF blocks = <<>> THEN 0
    ELSE BlockLen(Head(blocks), Head(blocks).n) + SumBlockLen(Tail(blocks))

\* len() of a returned string.  The join puts one "\n" between consecutive
\* parts: header, each block, and the 20-character "\n=== END CONTEXT ===".
ContextLen(context) ==
    IF context.text = "no history" THEN 43
    ELSE HeaderLen(context.new) + SumBlockLen(context.blocks) + 20
         + (Len(context.blocks) + 1)

\* A cache test that still serves an entry exactly cache_ttl old.
CacheHitInclusive(cache, cache_time, cache_key, clock) ==
    /\ cache_key \in DOMAIN cache
    /\ cache_key \in DOMAIN cache_time
    /\ clock - cache_time[cache_key] <= cache_ttl

\* "if cache_key in cache: ... if cache_time and (now - cache_time) < ttl"
CacheHit(cache, cache_time, cache_key, clock) ==
    /\ cache_key \in DOMAIN cache
    /\ cache_key \in DOMAIN cache_time
    /\ clock - cache_time[cache_key] < cache_ttl

\* get_conversation_context from the cache key on (lines 398-495): fetched is
\* the list the chat resolution produced, global_conversations what
\* get_recent_conversations gives when it is asked, limit the effective limit.
ContextFrom(fetched, global_conversations, cache, cache_time, clock, user_id, limit, chat_id, current_query, messages) ==
    LET real_is_new_chat == fetched = <<>>
        cache_key == CacheKey(user_id, chat_id, limit, real_is_new_chat)
        hit == CacheHit(cache, cache_time, cache_key, clock)
        query_keywords == QueryKeywords(current_query)
        sorted == SortDescending(fetched)
        current_ids == {sorted[i].id : i \in 1..Len(sorted)}
        relevant_history == Relevant(NotIn(global_conversations, current_ids), query_keywords)
        extended == IF query_keywords # {} THEN sorted \o relevant_history ELSE sorted
        conversations ==
            IF real_is_new_chat
            THEN (IF query_keywords # {}
                  THEN Take(Relevant(global_conversations, query_keywords), limit)
                  ELSE <<>>)
            ELSE Take(extended, limit)
        context == BuildContext(conversations, real_is_new_chat)
        untouched == [cached_context |-> cache, context_cache_time |-> cache_time]
    IN  IF hit
        THEN untouched @@
             [ret |-> cache[cache_key], cache_key |-> cache_key, hit |-> TRUE,
              built |-> FALSE, used |-> <<>>, real_is_new_chat |-> real_is_new_chat,
              messages |-> messages]
        ELSE IF conversations = <<>>
        THEN untouched @@
             [ret |-> NoHistory, cache_key |-> cache_key, hit |-> FALSE, built |-> FALSE,
              used |-> <<>>, real_is_new_chat |-> real_is_new_chat,
              messages |-> messages]
        ELSE [cached_context |->
                  [k \in DOMAIN cache \cup {cache_key} |->
                      IF k = cache_key THEN context ELSE cache[k]],
              context_cache_time |->
                  [k \in DOMAIN cache_time \cup {cache_key} |->
                      IF k = cache_key THEN clock ELSE cache_time[k]],
              ret |-> context, cache_key |-> cache_key, hit |-> FALSE, built |-> TRUE,
              used |-> conversations, real_is_new_chat |-> real_is_new_chat,
              messages |-> IF ~Truthy(chat_id) /\ TruthyList(messages)
                           THEN SomeList(extended) ELSE messages]

\* The early return of get_conversation_context when the limit is 0.
LimitZero(cache, cache_time, messages) ==
    [cached_context |-> cache, context_cache_time |-> cache_time,
     ret |-> NoHistory, cache_key |-> None, hit |-> FALSE, built |-> FALSE,
     used |-> <<>>, real_is_new_chat |-> FALSE, messages |-> messages]

\* What get_conversation_context does, given the store, the two cache
\* dictionaries and the clock.  messages is current_chat_messages.
get_conversation_context(history, registered, cache, cache_time, clock, user_id, provided_limit, chat_id, current_query, messages) ==
    LET limit == get_effective_limit(provided_limit)
        fetched ==
            IF Truthy(chat_id)
            THEN get_chat_specific_conversations(history, user_id, chat_id, limit)
            ELSE IF TruthyList(messages)
            THEN messages.value
            ELSE get_session_conversations(history, user_id, limit)
        global_conversations == get_recent_conversations(history, registered, user_id, limit)
    IN  IF limit = 0
        THEN LimitZero(cache, cache_time, messages)
        ELSE ContextFrom(fetched, global_conversations, cache, cache_time, clock,
                         user_id, limit, chat_id, current_query, messages)

\* An invalidation that removes nothing.
clear_nothing(cache, cache_time, user_id, chat_id) ==
    [cached_context |-> cache, context_cache_time |-> cache_time, removed |-> {}]

\* clear_cached_context: drop every key that starts with the prefix, from both
\* dictionaries; removed is the keys it dropped.
clear_cached_context(cache, cache_time, user_id, chat_id) ==
    LET prefix ==
            IF Truthy(chat_id)
            THEN user_id \o <<"_">> \o chat_id \o <<"_">>
            ELSE user_id \o <<"_">>
        keys_to_remove == {k \in DOMAIN cache : StartsWith(k, prefix)}
    IN  [cached_context |-> [k \in DOMAIN cache \ keys_to_remove |-> cache[k]],
         context_cache_time |->
             [k \in DOMAIN cache_time \ keys_to_remove |-> cache_time[k]],
         removed |-> keys_to_remove]

\* The chatHistory document a conversation is written to.
TargetDoc(chat_id) == IF Truthy(chat_id) THEN chat_id ELSE NEW_CHAT

\* document(conversation.id).set(conv_data): replaces the record of that id.
SetRecord(collection, rec) == {r \in collection : r.id # rec.id} \cup {rec}

(***************************************************************************)
(* firestore_manager.py: documents.                                        *)
(***************************************************************************)
D1 == <<"d", "1">>
D2 == <<"d", "2">>
D3 == <<"d", "3">>
DX == <<"d", "X">>

\* The ids documents are saved under.
DocIds == {D1, D2, D3}

\* A sequence without the given element.
RECURSIVE Without(_, _)
Without(s, x) ==
    IF s = <<>> THEN <<>>
    ELSE IF Head(s) = x THEN Without(Tail(s), x)
    ELSE <<Head(s)>> \o Without(Tail(s), x)

\* save_document: document(document.id).set(...) with its upload_time; the
\* collection is kept here in the order the query returns it, latest first.
save_document(collection, id) == <<id>> \o Without(collection, id)

\* get_user_documents: order_by upload_time DESCENDING, limit(limit).
get_user_documents(store, user_id, limit) == Take(store[user_id], limit)

\* A lookup that falls back to the documents fetched.
AllFetched(document_ids, fetched) == fetched

\* The documents named by document_ids, in that order, first match each.
RECURSIVE SpecificDocs(_, _)
SpecificDocs(document_ids, fetched) ==
    IF document_ids = <<>> THEN <<>>
    ELSE LET doc_id == Head(document_ids)
             found == \E i \in 1..Len(fetched) : fetched[i] = doc_id
         IN  (IF found THEN <<doc_id>> ELSE <<>>)
             \o SpecificDocs(Tail(document_ids), fetched)

\* The returned string: "" or, per document, a heading line (with the
\* ATTACHED marker) followed by its content or its preview.
EmptyString == [text |-> "", parts |-> <<>>]

DocumentsString(docs, ids, full_content) ==
    [text |-> "documents",
     parts |-> [i \in 1..Len(docs) |->
                   [n |-> i, id |-> docs[i],
                    attached |-> TruthyList(ids)
                                 /\ \E j \in 1..Len(ids.value) : ids.value[j] = docs[i],
                    full |-> full_content]]]

\* get_documents_context(user_id, limit, full_content, document_id, document_ids)
get_documents_context(store, user_id, limit, full_content, document_id, document_ids) ==
    LET ids == IF ~document_ids.given
               THEN (IF Truthy(document_id) THEN SomeList(<<document_id>>) ELSE NoneList)
               ELSE document_ids
        fetched == get_user_documents(store, user_id, limit * 2)
        chosen == IF TruthyList(ids)
                  THEN SpecificDocs(ids.value, fetched)
                  ELSE Take(fetched, limit)
    IN  IF chosen = <<>> THEN EmptyString
        ELSE DocumentsString(chosen, ids, full_content)

(***************************************************************************)
(* The calls on the shared FirestoreManager state, one after another.      *)
(***************************************************************************)
MaxCalls == 4
TtlCalls == 3
MaxTime == 5

\* The limit callers pass.
Limits == {SomeInt(2)}

LongLimits == {NoneInt, SomeInt(30)}

\* current_query values, as word lists: none, and "the Pasta".
Queries == {None, <<W_the, W_Pasta>>}

\* current_chat_messages values.
MessageLists == {NoneList}

OptionalChatIds == ChatIds \cup {None}

HistoryDocs == ChatIds \cup {NEW_CHAT}

EmptyMap == [k \in {} |-> 0]

Absent == [present |-> FALSE, context |-> NoHistory, time |-> 0]

\* The entry the two dictionaries hold for a key.
CacheEntry(cache, cache_time, key) ==
    IF key \in DOMAIN cache /\ key \in DOMAIN cache_time
    THEN [present |-> TRUE, context |-> cache[key], time |-> cache_time[key]]
    ELSE Absent

\* The entry a call finds under its key, and how old it is then.
Found(cache, cache_time, key, clock) ==
    IF key \in DOMAIN cache /\ key \in DOMAIN cache_time
    THEN [present |-> TRUE, context |-> cache[key], time |-> cache_time[key],
          age |-> clock - cache_time[key]]
    ELSE [present |-> FALSE, context |-> NoHistory, time |-> 0, age |-> 0]

NotFound == Found(EmptyMap, EmptyMap, None, 0)

\* A call and what it returned; prior is the cache entry the call found,
\* removed the cache keys it dropped.
Call(op, user_id, chat_id, r, prior) ==
    [op |-> op, user_id |-> user_id, chat_id |-> chat_id,
     ret |-> r.ret, cache_key |-> r.cache_key, hit |-> r.hit,
     built |-> r.built, used |-> r.used, real_is_new_chat |-> r.real_is_new_chat,
     prior |-> prior, removed |-> {}]

NoResult ==
    [ret |-> NoHistory, cache_key |-> None, hit |-> FALSE, built |-> FALSE,
     used |-> <<>>, real_is_new_chat |-> FALSE]

\* get_conversation_context(user_id, limit, chat_id, current_query, messages),
\* with the limit drawn from the given set.
GetContext(limits) ==
    \E u \in Users, c \in OptionalChatIds, l \in limits, q \in Queries,
       m \in MessageLists :
        \E r \in {get_conversation_context(chatHistory, chats[u], cached_context,
                                          context_cache_time, now, u, l, c, q, m)} :
            /\ hist > 0
            /\ cached_context' = r.cached_context
            /\ context_cache_time' = r.context_cache_time
            /\ last' = Call("get", u, c, r,
                            Found(cached_context, context_cache_time, r.cache_key, now))
            /\ hist' = hist - 1
            /\ UNCHANGED <<chatHistory, chats, documents, now, resp, inflight, USERS, taskStore>>

GetConversationContext == GetContext(Limits)

\* The same call with the limits that let a context fill up: the default
\* (conversation_limit) and main.py's 30.
GetLongContext == GetContext(LongLimits)

\* save_conversation(conversation, chat_id): invalidate, then write.
SaveConversation ==
    \E id \in SavedIds, c \in OptionalChatIds :
        \E cleared \in {clear_cached_context(cached_context, context_cache_time,
                                              Conversation[id].user_id, c)} :
        LET u == Conversation[id].user_id
            target == <<u, TargetDoc(c)>>
        IN  /\ hist > 0
            /\ cached_context' = cleared.cached_context
            /\ context_cache_time' = cleared.context_cache_time
            /\ chatHistory' =
                   [chatHistory EXCEPT ![target] = SetRecord(@, Stored(id, None))]
            /\ last' = [Call("save", u, c, NoResult, NotFound)
                            EXCEPT !.removed = cleared.removed]
            /\ hist' = hist - 1
            /\ UNCHANGED <<chats, documents, now, resp, inflight, USERS, taskStore>>

\* clear_cached_context(user_id, chat_id), called on its own.
ClearCachedContext ==
    \E u \in Users, c \in OptionalChatIds :
        \E cleared \in {clear_cached_context(cached_context, context_cache_time, u, c)} :
            /\ hist > 0
            /\ cached_context' = cleared.cached_context
            /\ context_cache_time' = cleared.context_cache_time
            /\ last' = [Call("clear", u, c, NoResult, NotFound)
                            EXCEPT !.removed = cleared.removed]
            /\ hist' = hist - 1
            /\ UNCHANGED <<chatHistory, chats, documents, now, resp, inflight, USERS, taskStore>>

\* The records of newChat written under the new chat, with chat_id set.
RECURSIVE MoveAll(_, _, _)
MoveAll(collection, data, new_chat_id) ==
    IF data = {} THEN collection
    ELSE LET r == CHOOSE r \in data : TRUE
         IN  MoveAll(SetRecord(collection, Stored(r.id, new_chat_id)),
                     data \ {r}, new_chat_id)

\* promote_new_conversation(user_id, new_chat_id): False when newChat is empty;
\* else register the chat, copy newChat under it and clear newChat.
PromoteNewConversation ==
    \E u \in Users, c \in ChatIds :
        LET new_convo_data == chatHistory[<<u, NEW_CHAT>>]
            copied == [chatHistory EXCEPT ![<<u, c>>] = MoveAll(@, new_convo_data, c)]
        IN  /\ hist > 0
            /\ IF new_convo_data = {}
               THEN UNCHANGED <<chatHistory, chats>>
               ELSE /\ chats' = [chats EXCEPT ![u] = @ \cup {c}]
                    /\ chatHistory' = [copied EXCEPT ![<<u, NEW_CHAT>>] = {}]
            /\ last' = Call("promote", u, c, NoResult, NotFound)
            /\ hist' = hist - 1
            /\ UNCHANGED <<documents, cached_context, context_cache_time, now, resp, inflight, USERS, taskStore>>

\* Time passes: a minute.
Tick ==
    /\ now < MaxTime
    /\ now' = now + 1
    /\ UNCHANGED <<chatHistory, chats, documents, cached_context,
                   context_cache_time, last, hist, resp, inflight, USERS, taskStore>>

\* Bound on the document calls of one behaviour.
DocCalls == 3

\* The limits get_documents_context is called with.
DocLimits == {1, 2}

\* document_id values: none, the empty string, a saved id, an id never saved.
DocumentIdArgs == {None, <<>>, D1, DX}

\* document_ids values.
DocumentIdsArgs ==
    {NoneList, SomeList(<<>>), SomeList(<<DX>>), SomeList(<<D2, D1>>),
     SomeList(<<DX, D3>>), SomeList(<<D1, D1>>)}

\* A get_documents_context call and what it returned.
DocsCall(user_id, limit, document_id, document_ids, ret) ==
    [op |-> "docs", user_id |-> user_id, limit |-> limit,
     document_id |-> document_id, document_ids |-> document_ids, ret |-> ret]

\* save_document(document)
SaveDocument ==
    \E u \in Users, d \in DocIds :
        /\ hist > 0
        /\ documents' = [documents EXCEPT ![u] = save_document(@, d)]
        /\ last' = Call("save_document", u, None, NoResult, NotFound)
        /\ hist' = hist - 1
        /\ UNCHANGED <<chatHistory, chats, cached_context, context_cache_time,
                       now, resp, inflight, USERS, taskStore>>

\* get_documents_context(user_id, limit, full_content, document_id, document_ids)
GetDocumentsContext ==
    \E u \in Users, l \in DocLimits, full \in BOOLEAN, d \in DocumentIdArgs,
       ds \in DocumentIdsArgs :
        /\ hist > 0
        /\ last' = DocsCall(u, l, d, ds, get_documents_context(documents, u, l, full, d, ds))
        /\ hist' = hist - 1
        /\ UNCHANGED <<chatHistory, chats, documents, cached_context,
                       context_cache_time, now, resp, inflight, USERS, taskStore>>

LastInit == Call("none", UA, None, NoResult, NotFound)

\* No get_conversation_context, save_conversation or
\* promote_new_conversation call is under way.
NoGet ==
    [active |-> FALSE, user_id |-> UA, chat_id |-> None, current_query |-> None,
     fetched |-> <<>>, global |-> <<>>, overtaken |-> FALSE]

NoSave == [active |-> FALSE, id |-> "k1", chat_id |-> None, removed |-> {}]

NoPromote == [active |-> FALSE, user_id |-> UA, chat_id |-> None, data |-> {}]

\* stale: the cache keys whose context was built from a read that a completed
\* write to the same chat has overtaken; saved: the ids whose save returned.
Idle ==
    [get |-> NoGet, save |-> NoSave, promote |-> NoPromote, stale |-> {},
     saved |-> {}]

\* The state after construction: empty store, empty shared cache.
\* No task has been saved.
NoTasks == [users |-> [u \in Users |-> {}], global |-> {}]

Start ==
    /\ chatHistory = [t \in Users \X HistoryDocs |-> {}]
    /\ chats = [u \in Users |-> {}]
    /\ documents = [u \in Users |-> <<>>]
    /\ cached_context = EmptyMap
    /\ context_cache_time = EmptyMap
    /\ now = 0
    /\ last = LastInit
    /\ inflight = Idle
    /\ USERS = EmptyMap
    /\ taskStore = NoTasks

\* Saves, promotions and context requests of both users, in any order, at one
\* instant.
Init == Start /\ hist = MaxCalls /\ resp = RespInit

Next ==
    \/ GetConversationContext
    \/ SaveConversation
    \/ PromoteNewConversation

Spec == Init /\ [][Next]_vars

\* The same calls with time passing between them.
InitTtl == Start /\ hist = TtlCalls /\ resp = RespInit

NextTtl ==
    \/ GetConversationContext
    \/ SaveConversation
    \/ ClearCachedContext
    \/ Tick

SpecTtl == InitTtl /\ [][NextTtl]_vars

\* One context request on a chat that already holds long conversations.
InitLen ==
    /\ chatHistory \in
          {[t \in Users \X HistoryDocs |->
               IF t = <<UA, CHAT_C>> THEN {Stored(id, None) : id \in ids} ELSE {}] :
             ids \in SUBSET LongIds}
    /\ chats = [u \in Users |-> {}]
    /\ documents = [u \in Users |-> <<>>]
    /\ cached_context = EmptyMap
    /\ context_cache_time = EmptyMap
    /\ now = 0
    /\ last = LastInit
    /\ inflight = Idle
    /\ USERS = EmptyMap
    /\ taskStore = NoTasks
    /\ hist = 1
    /\ resp = RespInit

NextLen == GetLongContext

SpecLen == InitLen /\ [][NextLen]_vars

\* Bound on the calls of one behaviour with attached documents.
AttachCalls == 2

\* The values _current_document_id and _current_document_ids are set to.
AttachedId == {None, D1}

AttachedIds == {NoneList, SomeList(<<D2, D1>>)}

\* FirestoreManager.__init__: document_limit
document_limit == 2

\* The caller sets _current_document_id / _current_document_ids on the
\* manager and calls get_conversation_context, which does not read them: the
\* only code that does follows a return statement.
GetAttachedContext ==
    \E u \in Users, c \in OptionalChatIds, l \in Limits, q \in Queries,
       d \in AttachedId, ds \in AttachedIds :
        \E r \in {get_conversation_context(chatHistory, chats[u], cached_context,
                                          context_cache_time, now, u, l, c, q, NoneList)} :
            /\ hist > 0
            /\ cached_context' = r.cached_context
            /\ context_cache_time' = r.context_cache_time
            /\ last' = Call("get", u, c, r,
                            Found(cached_context, context_cache_time, r.cache_key, now))
                        @@ [document_id |-> d, document_ids |-> ds]
            /\ hist' = hist - 1
            /\ UNCHANGED <<chatHistory, chats, documents, now, resp, inflight, USERS, taskStore>>

\* The parts the returned string is joined from: the header, one block per
\* conversation rendered, the footer.
ContextParts(context) ==
    IF context.text = "no history" THEN <<>>
    ELSE <<"header">> \o [i \in 1..Len(context.blocks) |-> "conversation"]
         \o <<"footer">>

\* Conversations and documents saved, then contexts requested with documents
\* attached.
InitAttach == Start /\ hist = AttachCalls /\ resp = RespInit

NextAttach ==
    \/ SaveConversation
    \/ SaveDocument
    \/ GetAttachedContext

SpecAttach == InitAttach /\ [][NextAttach]_vars

\* Document saves and document-context requests.
InitDocs == Start /\ hist = DocCalls /\ resp = RespInit

NextDocs ==
    \/ SaveDocument
    \/ GetDocumentsContext

SpecDocs == InitDocs /\ [][NextDocs]_vars

\* The request handlers: each behaviour is one request and its response.
InitHttp == Start /\ hist = 0 /\ resp \in Requests

NextHttp ==
    \/ ai_run_chat
    \/ ai_run_legacy
    \/ UploadFile

SpecHttp == InitHttp /\ [][NextHttp]_vars

(***************************************************************************)
(* Properties of the request handlers (SpecHttp).                          *)
(***************************************************************************)
Answered == resp.response # Pending

ResolvedPlan == ResolvePlan(resp.x_user_plan, resp.user_plan)

\* The names a client may give a model, as the plan documentation lists them.
ModelNames ==
    (gemini :> gemini) @@ (grok :> grok) @@ (mixed :> mixed) @@
    (ai_type_1 :> gemini) @@ (ai_type_2 :> grok) @@ (ai_type_3 :> mixed)

\* C4: a /chat, /ai/run or /upload-file request whose resolved plan is not
\* GO, PRO or ULTRA is answered with a 4xx status and invokes no AI backend.
C4_UnrecognizedPlanIs4xx ==
    (Answered /\ resp.importOk /\ ResolvedPlan \notin PLANS)
        => /\ resp.response.status \in 400..499
           /\ resp.response.backends = <<>>

\* C5: a /chat request with a recognized plan and no model, or the model the
\* plan allows, calls run_assistant_by_plan once, runs exactly the backend
\* mapped to the plan, and returns that backend's result.
C5_PlanBackendRuns ==
    (/\ Answered
     /\ resp.endpoint = "/chat"
     /\ resp.importOk
     /\ ResolvedPlan \in PLANS
     /\ \/ resp.model = None
        \/ /\ Strip(Lower(resp.model)) \in DOMAIN ModelNames
           /\ ModelNames[Strip(Lower(resp.model))] = PLAN_TO_FUNCTION[ResolvedPlan])
        => /\ resp.response.calls = 1
           /\ resp.response.backends = <<PLAN_TO_FUNCTION[ResolvedPlan]>>
           /\ resp.response.status = 200
           /\ resp.response.body = Backend(PLAN_TO_FUNCTION[ResolvedPlan], resp.outcome)

\* C6: a /chat request that names a model is rejected with 400 when the
\* normalized name is not gemini, grok or mixed, whatever the plan, and with
\* 403 when it is one of them but not the one the resolved plan allows; in
\* both cases run_assistant_by_plan is not called and no backend runs.
C6_ModelCheck ==
    (Answered /\ resp.endpoint = "/chat" /\ resp.importOk /\ resp.model # None)
        => LET name == Strip(Lower(resp.model))
           IN  /\ name \notin DOMAIN ModelNames
                    => /\ resp.response.status = 400
                       /\ resp.response.calls = 0
                       /\ resp.response.backends = <<>>
               /\ (/\ name \in DOMAIN ModelNames
                   /\ ResolvedPlan \in PLANS
                   /\ ModelNames[name] # PLAN_TO_FUNCTION[ResolvedPlan])
                    => /\ resp.response.status = 403
                       /\ resp.response.calls = 0
                       /\ resp.response.backends = <<>>

\* An alias of another plan's model was refused with 403.
C6_Witness ==
    /\ Answered
    /\ resp.endpoint = "/chat"
    /\ resp.model = ai_type_3
    /\ ResolvedPlan = GO
    /\ resp.response.status = 403

(***************************************************************************)
(* Properties of the document context (SpecDocs).                          *)
(***************************************************************************)
\* The ids of the documents stored for the user of the last call.
StoredDocIds == {documents[last.user_id][i] : i \in 1..Len(documents[last.user_id])}

NoneStored(ids) == \A i \in 1..Len(ids) : ids[i] \notin StoredDocIds

\* C7 as stated: a call with a document_id, or with a non-empty document_ids
\* list, none of whose ids matches a stored document of the user, returns "".
C7_UnknownIdsGiveEmpty ==
    (/\ last.op = "docs"
     /\ \/ /\ Truthy(last.document_id)
           /\ NoneStored(<<last.document_id>> \o last.document_ids.value)
        \/ /\ TruthyList(last.document_ids)
           /\ NoneStored(last.document_ids.value))
        => last.ret = EmptyString

\* C7: a call with a non-empty document_ids list, or with document_ids None
\* and a non-empty document_id, none of whose ids matches a stored document of
\* the user, returns "" even when the user has other documents; an empty
\* document_ids list takes priority over document_id.
C7_UnknownIdsGiveEmptyAmended ==
    (/\ last.op = "docs"
     /\ \/ /\ ~last.document_ids.given
           /\ Truthy(last.document_id)
           /\ NoneStored(<<last.document_id>>)
        \/ /\ TruthyList(last.document_ids)
           /\ NoneStored(last.document_ids.value))
        => last.ret = EmptyString

\* An unknown id was asked of a user who has documents, and "" came back.
C7_Witness ==
    /\ last.op = "docs"
    /\ last.document_ids = SomeList(<<DX>>)
    /\ documents[last.user_id] # <<>>
    /\ last.ret = EmptyString

(***************************************************************************)
(* Properties of the conversation context (Spec).                          *)
(***************************************************************************)
LimitValues == {l.value : l \in Limits}

\* The cache keys get_conversation_context can use for a user and a chat.
KeysOf(user_id, chat_id) ==
    {CacheKey(user_id, chat_id, l, f) : l \in LimitValues, f \in BOOLEAN}

C8_PerUserIsolation ==
    last.op = "get"
        => \A i \in 1..Len(last.ret.blocks) :
              Conversation[last.ret.blocks[i].id].user_id = last.user_id

\* C9: no conversation id occurs twice among the conversations
\* get_conversation_context assembles into a context.
C9_NoDuplicateIds ==
    (last.op = "get" /\ last.built)
        => \A i, j \in 1..Len(last.used) :
              last.used[i].id = last.used[j].id => i = j

\* C10: when chat_id names a chat with stored history, the context built
\* contains only conversations of that chat, whatever the query.
C10_StrictChatIsolation ==
    (/\ last.op = "get"
     /\ last.built
     /\ Truthy(last.chat_id)
     /\ chatHistory[<<last.user_id, last.chat_id>>] # {})
        => \A i \in 1..Len(last.ret.blocks) :
              Stored(last.ret.blocks[i].id, last.ret.blocks[i].chat_id)
                  \in chatHistory[<<last.user_id, last.chat_id>>]

(***************************************************************************)
(* Properties of the cache expiry (SpecTtl).                               *)
(***************************************************************************)
\* The entry the cache holds now under the key of the last call.
EntryNow == CacheEntry(cached_context, context_cache_time, last.cache_key)

\* When the last call was made, if it found an entry.
CalledAt == last.prior.time + last.prior.age

\* The entry as the last call found it.
PriorEntry ==
    [present |-> last.prior.present, context |-> last.prior.context,
     time |-> last.prior.time]

\* What the last call computes from the current store when nothing is cached.
Recomputed(l, q) ==
    get_conversation_context(chatHistory, chats[last.user_id], EmptyMap, EmptyMap,
                             CalledAt, last.user_id, l, last.chat_id, q, NoneList)

C3_LengthWithinBudget ==
    last.op = "get" => ContextLen(last.ret) <= MAX_CONTEXT_CHARS


(***************************************************************************)
(* Properties of the new-chat branch (Spec).                               *)
(***************************************************************************)
\* C11: when the chat is resolved as new, get_conversation_context returns
\* the no-history message and puts no conversation of another chat into the
\* context, whatever the query.
C11_NewChatStartsEmpty ==
    (last.op = "get" /\ last.real_is_new_chat)
        => /\ last.ret = NoHistory
           /\ last.used = <<>>


(***************************************************************************)
(* Properties of the context with attached documents (SpecAttach).         *)
(***************************************************************************)
\* What get_documents_context gives for the documents attached at the last
\* call.
AttachedText ==
    get_documents_context(documents, last.user_id, document_limit, TRUE,
                          last.document_id, last.document_ids)

\* C12: when documents are stored for the user and attached, the context
\* get_conversation_context returns contains the text get_documents_context
\* produces for them.
C12_ContextHasDocuments ==
    (/\ last.op = "get"
     /\ TruthyList(last.document_ids) \/ Truthy(last.document_id)
     /\ AttachedText # EmptyString)
        => \E i \in 1..Len(ContextParts(last.ret)) :
              ContextParts(last.ret)[i] = "documents"


(***************************************************************************)
(* Database failures.  faults is the set of accesses that raise during a   *)
(* call; every reader reports what it returned and the reads it issued.   *)
(***************************************************************************)
\* "client": get_db() gave None, so the db property raises on every access.
\* The others name one access each.
Faults ==
    {"client", "session_query", "session_read", "chats_read", "chat_read",
     "specific_read", "documents_read", "tasks_read", "user_read",
     "new_data_read", "write", "clear_read"}

Fails(faults, site) == "client" \in faults \/ site \in faults

\* One read issued, and whether it succeeded.
Access(faults, site) == [site |-> site, ok |-> ~Fails(faults, site)]

\* get_session_conversations: when the ordered query raises as it is made, an
\* unordered query for twice as many documents is read instead, and it is
\* neither sorted nor cut (every conversation has a timestamp).
get_session_conversations_db(faults, history, user_id, limit) ==
    LET lim == get_effective_limit(SomeInt(limit))
        collection == history[<<user_id, NEW_CHAT>>]
    IN  IF "client" \in faults
        THEN [ret |-> <<>>, reads |-> <<Access(faults, "session_read")>>]
        ELSE IF "session_query" \in faults
        THEN [ret |-> IF Fails(faults, "session_read") THEN <<>>
                      ELSE Take(AsSeq(collection), lim * 2),
              reads |-> <<Access(faults, "session_query"),
                          Access(faults, "session_read")>>]
        ELSE [ret |-> IF Fails(faults, "session_read") THEN <<>>
                      ELSE OrderedQuery(collection, lim),
              reads |-> <<Access(faults, "session_read")>>]

\* _get_chat_specific_conversations: one try around the query and its reading.
get_chat_specific_conversations_db(faults, history, user_id, chat_id, limit) ==
    [ret |-> IF Fails(faults, "specific_read") THEN <<>>
             ELSE get_chat_specific_conversations(history, user_id, chat_id, limit),
     reads |-> <<Access(faults, "specific_read")>>]

\* One read per registered chat, in the order the chats are streamed.
RECURSIVE ChatReads(_, _, _)
ChatReads(faults, registered, order) ==
    IF order = <<>> THEN <<>>
    ELSE (IF Head(order) \in registered
          THEN <<Access(faults, "chat_read")>> ELSE <<>>)
         \o ChatReads(faults, registered, Tail(order))

\* get_recent_conversations: a chat whose read fails is skipped (the except
\* inside the loop); a failure listing the chats discards everything.
get_recent_conversations_db(faults, history, registered, user_id, limit) ==
    LET lim == get_effective_limit(SomeInt(limit))
        session == get_session_conversations_db(faults, history, user_id, lim)
        saved == IF Fails(faults, "chat_read") THEN <<>>
                 ELSE SavedChatConversations(history, registered, user_id, ChatOrder)
    IN  IF Fails(faults, "chats_read")
        THEN [ret |-> <<>>,
              reads |-> session.reads \o <<Access(faults, "chats_read")>>]
        ELSE [ret |-> Take(SortDescending(session.ret \o saved), lim),
              reads |-> session.reads \o <<Access(faults, "chats_read")>>
                        \o ChatReads(faults, registered, ChatOrder)]

\* A reader that reads again after a failed read.
get_user_documents_retrying(faults, store, user_id, limit) ==
    [ret |-> IF Fails(faults, "documents_read") THEN <<>>
             ELSE get_user_documents(store, user_id, limit),
     reads |-> IF Fails(faults, "documents_read")
               THEN <<Access(faults, "documents_read"), Access(faults, "documents_read")>>
               ELSE <<Access(faults, "documents_read")>>]

\* get_user_documents
get_user_documents_db(faults, store, user_id, limit) ==
    [ret |-> IF Fails(faults, "documents_read") THEN <<>>
             ELSE get_user_documents(store, user_id, limit),
     reads |-> <<Access(faults, "documents_read")>>]

\* get_documents_context, over what get_user_documents returned.
get_documents_context_db(faults, store, user_id, limit, full_content, document_id, document_ids) ==
    [ret |-> get_documents_context(
                 IF Fails(faults, "documents_read")
                 THEN [store EXCEPT ![user_id] = <<>>] ELSE store,
                 user_id, limit, full_content, document_id, document_ids),
     reads |-> <<Access(faults, "documents_read")>>]

\* get_conversation_context calls the readers, which swallow their failures,
\* and has no handler of its own.
get_conversation_context_db(faults, history, registered, cache, cache_time, clock, user_id, provided_limit, chat_id, current_query, messages) ==
    LET limit == get_effective_limit(provided_limit)
        fetched ==
            IF Truthy(chat_id)
            THEN get_chat_specific_conversations_db(faults, history, user_id, chat_id, limit)
            ELSE IF TruthyList(messages)
            THEN [ret |-> messages.value, reads |-> <<>>]
            ELSE get_session_conversations_db(faults, history, user_id, limit)
        global == get_recent_conversations_db(faults, history, registered, user_id, limit)
        r == ContextFrom(fetched.ret, global.ret, cache, cache_time, clock,
                         user_id, limit, chat_id, current_query, messages)
    IN  IF limit = 0
        THEN LimitZero(cache, cache_time, messages) @@ [reads |-> <<>>]
        ELSE r @@ [reads |-> fetched.reads \o
                       (IF ~r.hit /\ QueryKeywords(current_query) # {}
                        THEN global.reads ELSE <<>>)]

\* promote_new_conversation: False when newChat reads as empty or a write
\* raises; clear_new_conversation swallows its own failure.
promote_new_conversation_db(faults, history, registered, user_id, new_chat_id) ==
    LET new_convo_data ==
            IF Fails(faults, "new_data_read") THEN {}
            ELSE history[<<user_id, NEW_CHAT>>]
        copied == [t \in DOMAIN history |->
                       IF t = <<user_id, new_chat_id>>
                       THEN MoveAll(history[t], new_convo_data, new_chat_id)
                       ELSE history[t]]
        cleared == [t \in DOMAIN history |->
                        IF t = <<user_id, NEW_CHAT>> THEN {} ELSE copied[t]]
        unchanged == [chatHistory |-> history, chats |-> registered]
    IN  IF new_convo_data = {}
        THEN unchanged @@
             [ret |-> FALSE, reads |-> <<Access(faults, "new_data_read")>>]
        ELSE IF Fails(faults, "write")
        THEN unchanged @@
             [ret |-> FALSE,
              reads |-> <<Access(faults, "new_data_read"), Access(faults, "write")>>]
        ELSE [chatHistory |-> IF Fails(faults, "clear_read") THEN copied
                              ELSE cleared,
              chats |-> registered \cup {new_chat_id},
              ret |-> TRUE,
              reads |-> <<Access(faults, "new_data_read"), Access(faults, "write"),
                          Access(faults, "clear_read")>>]

\* Tasks: users/{user_id}/tasks documents, in the order they are streamed.
Task(id, user_id, status, scheduled_for, priority) ==
    [id |-> id, user_id |-> user_id, status |-> status,
     scheduled_for |-> scheduled_for, priority |-> priority]

TaskDocs ==
    <<Task("t1", UA, "pending", 0, 1), Task("t2", UA, "pending", 0, 2),
      Task("t3", UA, "completed", 0, 3), Task("t4", UB, "pending", 9, 1),
      Task("t5", UB, "pending", 0, 1)>>

TaskStores == {<<>>, TaskDocs}

\* The tasks read: of one user, or of every user when user_id is None.
TasksOf(tasks, user_id) ==
    LET mine(t) == ~Truthy(user_id) \/ t.user_id = user_id
    IN  SelectSeq(tasks, mine)

\* pending_tasks.sort(key=lambda x: (-x.priority, x.scheduled_for))
RECURSIVE SortTasks(_)
SortTasks(s) ==
    IF s = <<>> THEN <<>>
    ELSE LET before(a, b) ==
                 \/ a.priority > b.priority
                 \/ a.priority = b.priority /\ a.scheduled_for < b.scheduled_for
             i == CHOOSE i \in 1..Len(s) :
                     \A j \in 1..Len(s) :
                         \/ j = i
                         \/ before(s[i], s[j])
                         \/ ~before(s[j], s[i]) /\ i < j
         IN  <<s[i]>> \o SortTasks(SubSeq(s, 1, i - 1) \o SubSeq(s, i + 1, Len(s)))

\* get_all_tasks_as_dicts
get_all_tasks_as_dicts_db(faults, tasks, user_id) ==
    [ret |-> IF Fails(faults, "tasks_read") THEN <<>> ELSE TasksOf(tasks, user_id),
     reads |-> <<Access(faults, "tasks_read")>>]

\* get_pending_tasks: pending and due, by priority then schedule.
get_pending_tasks_db(faults, tasks, user_id, clock) ==
    LET due(t) == t.status = "pending" /\ t.scheduled_for <= clock
    IN  [ret |-> IF Fails(faults, "tasks_read") THEN <<>>
                 ELSE SortTasks(SelectSeq(TasksOf(tasks, user_id), due)),
         reads |-> <<Access(faults, "tasks_read")>>]

\* The users/{uid} document: absent, without a plan, or with one.
NoUserDoc == [exists |-> FALSE, has_plan |-> FALSE, plan |-> <<>>]

UserDoc(plan) == [exists |-> TRUE, has_plan |-> plan # None, plan |-> plan]

UserDocs ==
    {NoUserDoc, UserDoc(None), UserDoc(<<"P", "R", "O">>),
     UserDoc(<<" ", "u", "l", "t", "r", "a">>), UserDoc(<<"f", "r", "e", "e">>)}

\* firebase_config.get_user_plan: the stored plan upper-cased and stripped,
\* "GO" when the document cannot be read, is absent or has no plan.
get_user_plan_db(faults, user_doc) ==
    [ret |-> IF ~Fails(faults, "user_read") /\ user_doc.exists /\ user_doc.has_plan
             THEN Strip(Upper(user_doc.plan)) ELSE GO,
     reads |-> <<Access(faults, "user_read")>>]


(***************************************************************************)
(* One call, with the accesses that fail during it, on stores that calls   *)
(* without failures have produced.                                         *)
(***************************************************************************)
\* How many accesses fail during one call.
MaxFaults == 1

FaultSets == {f \in SUBSET Faults : Cardinality(f) <= MaxFaults}

\* The store after construction, then after save_conversation(k1, None), after
\* a context request of a for chat c about pasta (which caches a context made
\* of k1 under the key of the still empty chat), after
\* promote_new_conversation(a, c) and after save_conversation(k2, None).
History(new_chat, chat_c) ==
    [t \in Users \X HistoryDocs |->
        IF t = <<UA, NEW_CHAT>> THEN new_chat
        ELSE IF t = <<UA, CHAT_C>> THEN chat_c ELSE {}]

NoChats == [u \in Users |-> {}]

ChatRegistered == [u \in Users |-> IF u = UA THEN {CHAT_C} ELSE {}]

PastaKey == CacheKey(UA, CHAT_C, 2, TRUE)

PastaContext == [k \in {PastaKey} |-> BuildContext(<<Stored("k1", None)>>, TRUE)]

PastaTime == [k \in {PastaKey} |-> 0]

EmptyStore ==
    [chatHistory |-> History({}, {}), chats |-> NoChats,
     cached_context |-> EmptyMap, context_cache_time |-> EmptyMap]

SavedStore ==
    [chatHistory |-> History({Stored("k1", None)}, {}), chats |-> NoChats,
     cached_context |-> EmptyMap, context_cache_time |-> EmptyMap]

RequestedStore ==
    [chatHistory |-> History({Stored("k1", None)}, {}), chats |-> NoChats,
     cached_context |-> PastaContext, context_cache_time |-> PastaTime]

PromotedStore ==
    [chatHistory |-> History({}, {Stored("k1", CHAT_C)}), chats |-> ChatRegistered,
     cached_context |-> PastaContext, context_cache_time |-> PastaTime]

SavedAgainStore ==
    [chatHistory |-> History({Stored("k2", None)}, {Stored("k1", CHAT_C)}),
     chats |-> ChatRegistered,
     cached_context |-> EmptyMap, context_cache_time |-> EmptyMap]

Stores == <<EmptyStore, SavedStore, RequestedStore, PromotedStore, SavedAgainStore>>

DocumentStores ==
    {[u \in Users |-> <<>>],
     [u \in Users |-> IF u = UA THEN save_document(<<>>, D1) ELSE <<>>]}

\* The limits a caller may pass: none, zero, a negative one, small ones.
AnyLimits == {NoneInt, SomeInt(0), SomeInt(0 - 1), SomeInt(1), SomeInt(2)}

\* current_chat_messages: none, or the conversations shown in the window,
\* oldest first.
SuppliedMessages ==
    {NoneList, SomeList(<<Stored("k2", None)>>),
     SomeList(<<Stored("k1", None), Stored("k2", None)>>)}

OptionalUsers == Users \cup {None}

\* A call made while the accesses in faults fail.
DbCall(op, user_id, faults, r) ==
    [op |-> op, user_id |-> user_id, faults |-> faults, ret |-> r.ret,
     reads |-> r.reads]

GetSessionConversationsDb ==
    /\ hist > 0
    /\ \E u \in Users, f \in FaultSets :
        /\ last' = DbCall("get_session_conversations", u, f,
                          get_session_conversations_db(f, chatHistory, u, 1))
        /\ hist' = hist - 1
        /\ UNCHANGED <<chatHistory, chats, documents, cached_context,
                       context_cache_time, now, resp, inflight, USERS, taskStore>>

GetRecentConversationsDb ==
    /\ hist > 0
    /\ \E u \in Users, f \in FaultSets :
        /\ last' = DbCall("get_recent_conversations", u, f,
                          get_recent_conversations_db(f, chatHistory, chats[u], u, 2))
        /\ hist' = hist - 1
        /\ UNCHANGED <<chatHistory, chats, documents, cached_context,
                       context_cache_time, now, resp, inflight, USERS, taskStore>>

GetUserDocumentsDb ==
    /\ hist > 0
    /\ \E u \in Users, f \in FaultSets :
        /\ last' = DbCall("get_user_documents", u, f,
                          get_user_documents_db(f, documents, u, 2))
        /\ hist' = hist - 1
        /\ UNCHANGED <<chatHistory, chats, documents, cached_context,
                       context_cache_time, now, resp, inflight, USERS, taskStore>>

GetDocumentsContextDb ==
    /\ hist > 0
    /\ \E u \in Users, f \in FaultSets, d \in {None, D1} :
        /\ last' = DbCall("get_documents_context", u, f,
                          get_documents_context_db(f, documents, u, 2, TRUE, d, NoneList))
        /\ hist' = hist - 1
        /\ UNCHANGED <<chatHistory, chats, documents, cached_context,
                       context_cache_time, now, resp, inflight, USERS, taskStore>>

GetPendingTasksDb ==
    /\ hist > 0
    /\ \E u \in OptionalUsers, f \in FaultSets, tasks \in TaskStores :
        /\ last' = DbCall("get_pending_tasks", u, f,
                          get_pending_tasks_db(f, tasks, u, now))
                   @@ [tasks |-> tasks]
        /\ hist' = hist - 1
        /\ UNCHANGED <<chatHistory, chats, documents, cached_context,
                       context_cache_time, now, resp, inflight, USERS, taskStore>>

GetAllTasksAsDictsDb ==
    /\ hist > 0
    /\ \E u \in OptionalUsers, f \in FaultSets, tasks \in TaskStores :
        /\ last' = DbCall("get_all_tasks_as_dicts", u, f,
                          get_all_tasks_as_dicts_db(f, tasks, u))
                   @@ [tasks |-> tasks]
        /\ hist' = hist - 1
        /\ UNCHANGED <<chatHistory, chats, documents, cached_context,
                       context_cache_time, now, resp, inflight, USERS, taskStore>>

GetUserPlanDb ==
    /\ hist > 0
    /\ \E u \in Users, f \in FaultSets, doc \in UserDocs :
        /\ last' = DbCall("get_user_plan", u, f, get_user_plan_db(f, doc))
                   @@ [user_doc |-> doc]
        /\ hist' = hist - 1
        /\ UNCHANGED <<chatHistory, chats, documents, cached_context,
                       context_cache_time, now, resp, inflight, USERS, taskStore>>

PromoteNewConversationDb ==
    /\ hist > 0
    /\ \E u \in Users, c \in ChatIds, f \in FaultSets :
        \E r \in {promote_new_conversation_db(f, chatHistory, chats[u], u, c)} :
            /\ chatHistory' = r.chatHistory
            /\ chats' = [chats EXCEPT ![u] = r.chats]
            /\ last' = DbCall("promote_new_conversation", u, f, r)
                       @@ [chat_id |-> c, new_convo_data |-> chatHistory[<<u, NEW_CHAT>>]]
            /\ hist' = hist - 1
            /\ UNCHANGED <<documents, cached_context, context_cache_time, now, resp, inflight, USERS, taskStore>>

GetConversationContextDb ==
    /\ hist > 0
    /\ \E u \in Users, c \in OptionalChatIds, l \in AnyLimits, q \in Queries,
       m \in SuppliedMessages, f \in FaultSets :
        \E r \in {get_conversation_context_db(f, chatHistory, chats[u], cached_context,
                                             context_cache_time, now, u, l, c, q, m)} :
            /\ cached_context' = r.cached_context
            /\ context_cache_time' = r.context_cache_time
            /\ last' = DbCall("get_conversation_context", u, f, r)
                       @@ [chat_id |-> c, limit |-> l, current_query |-> q,
                           supplied |-> m, messages_after |-> r.messages,
                           cache_key |-> r.cache_key, hit |-> r.hit,
                           built |-> r.built, used |-> r.used,
                           real_is_new_chat |-> r.real_is_new_chat,
                           cache_changed |->
                               \/ r.cached_context # cached_context
                               \/ r.context_cache_time # context_cache_time]
            /\ hist' = hist - 1
            /\ UNCHANGED <<chatHistory, chats, documents, now, resp, inflight, USERS, taskStore>>

InitDb ==
    /\ \E i \in DOMAIN Stores :
          /\ chatHistory = Stores[i].chatHistory
          /\ chats = Stores[i].chats
          /\ cached_context = Stores[i].cached_context
          /\ context_cache_time = Stores[i].context_cache_time
    /\ documents \in DocumentStores
    /\ now = 0
    /\ last = LastInit
    /\ inflight = Idle
    /\ USERS = EmptyMap
    /\ taskStore = NoTasks
    /\ hist = 1
    /\ resp = RespInit

NextDb ==
    \/ GetSessionConversationsDb
    \/ GetRecentConversationsDb
    \/ GetUserDocumentsDb
    \/ GetDocumentsContextDb
    \/ GetPendingTasksDb
    \/ GetAllTasksAsDictsDb
    \/ GetUserPlanDb
    \/ PromoteNewConversationDb
    \/ GetConversationContextDb

SpecDb == InitDb /\ [][NextDb]_vars


(***************************************************************************)
(* Claims over SpecDb: what a call returns when database accesses fail.    *)
(***************************************************************************)
\* Some access of the latest call failed.
Failed == \E i \in 1..Len(last.reads) : ~last.reads[i].ok

ListReaders ==
    {"get_session_conversations", "get_recent_conversations", "get_user_documents",
     "get_pending_tasks", "get_all_tasks_as_dicts"}

SingleReaders == {"get_user_documents", "get_pending_tasks", "get_all_tasks_as_dicts"}

IsDbCall == last.op \in ListReaders \cup
               {"get_documents_context", "get_conversation_context",
                "promote_new_conversation", "get_user_plan"}

DEFAULT_PLAN == GO

\* The plans get_current_user accepts: ["GO", "PRO", "ULTRA"].
AcceptedPlans == {GO, PRO, ULTRA}

\* sub in s
Contains(s, sub) ==
    \E i \in 1..(Len(s) - Len(sub) + 1) : SubSeq(s, i, i + Len(sub) - 1) = sub

\* _plan_for_email
plan_for_email(email) ==
    LET e == Lower(email)
    IN  IF Contains(e, <<"u", "l", "t", "r", "a">>) THEN ULTRA
        ELSE IF Contains(e, <<"p", "r", "o">>) THEN PRO
        ELSE GO

BearerPrefix == <<"b", "e", "a", "r", "e", "r", " ">>

\* _extract_bearer_token: authorization[7:].strip(), or None.
extract_bearer_token(authorization) ==
    IF ~Truthy(authorization) THEN None
    ELSE IF StartsWith(Lower(authorization), BearerPrefix)
    THEN Strip(SubSeq(authorization, 8, Len(authorization)))
    ELSE None

\* _email_from_auth: the bearer value lower-cased, None when it is empty.
email_from_auth(authorization) ==
    IF ~Truthy(authorization) THEN None
    ELSE IF StartsWith(Lower(authorization), BearerPrefix)
    THEN LET v == Strip(SubSeq(authorization, 8, Len(authorization)))
         IN  IF v # <<>> THEN Lower(v) ELSE None
    ELSE None

\* "if not plan or plan not in [...]: plan = DEFAULT_PLAN"
StoredPlan(faults, user_doc) ==
    LET plan == get_user_plan_db(faults, user_doc).ret
    IN  IF plan = <<>> \/ plan \notin AcceptedPlans THEN DEFAULT_PLAN ELSE plan

\* "plan = x_user_plan.upper().strip()", DEFAULT_PLAN when not accepted.
HeaderPlan(x_user_plan) ==
    LET plan == Strip(Upper(x_user_plan))
    IN  IF plan \notin AcceptedPlans THEN DEFAULT_PLAN ELSE plan

User(method, user_id, plan) ==
    [status |-> 200, method |-> method, user_id |-> user_id, plan |-> plan]

Unauthorized == [status |-> 401, method |-> "none", user_id |-> None, plan |-> None]

Unanswered == [status |-> 0, method |-> "none", user_id |-> None, plan |-> None]

\* Priority 2 and 3 of get_current_user, and the final 401.
HeadersThenLegacy(authorization, x_user_id, x_user_plan, faults, user_doc) ==
    LET email == email_from_auth(authorization)
    IN  IF Truthy(x_user_id)
        THEN User("headers", x_user_id,
                  IF Truthy(x_user_plan) THEN HeaderPlan(x_user_plan)
                  ELSE StoredPlan(faults, user_doc))
        ELSE IF Truthy(email)
        THEN User("legacy", email, plan_for_email(email))
        ELSE Unauthorized

\* get_current_user with the headers consulted before the token.
get_current_user_headers_first(authorization, x_user_id, x_user_plan, decoded, faults, user_doc) ==
    HeadersThenLegacy(authorization, x_user_id, x_user_plan, faults, user_doc)

\* get_current_user.  decoded is what verify_firebase_token does with the
\* token: it raises ValueError ("invalid"), or gives the claims, whose uid may
\* be missing.
get_current_user(authorization, x_user_id, x_user_plan, decoded, faults, user_doc) ==
    LET token == extract_bearer_token(authorization)
    IN  IF Truthy(authorization) /\ Truthy(token) /\ Len(token) > 100
           /\ decoded.outcome # "invalid"
        THEN IF ~Truthy(decoded.uid)
             THEN Unauthorized
             ELSE User("token", decoded.uid, StoredPlan(faults, user_doc))
        ELSE HeadersThenLegacy(authorization, x_user_id, x_user_plan, faults, user_doc)

\* A token of 101 characters, and header values.
LongToken == [i \in 1..101 |-> "x"]

Bearer(v) == <<"B", "e", "a", "r", "e", "r", " ">> \o v

AuthorizationHeaders ==
    {None, <<>>, Bearer(<<>>), Bearer(<<" ">>), <<"B", "a", "s", "i", "c", " ", "x">>,
     <<"b", "e", "a", "r", "e", "r", " ">> \o <<"P", "r", "o", "@", "x">>,
     Bearer(<<"u", "l", "t", "r", "a", "p", "r", "o">>), Bearer(<<"m", "e">>),
     Bearer(LongToken)}

UID1 == <<"u", "1">>

UserIdHeaders == {None, <<>>, <<"h", "1">>}

UserPlanHeaders ==
    {None, <<>>, <<"p", "r", "o">>, <<" ", "U", "l", "t", "r", "a", " ">>,
     <<"f", "r", "e", "e">>}

Decodings ==
    {[outcome |-> "invalid", uid |-> None], [outcome |-> "valid", uid |-> UID1],
     [outcome |-> "valid", uid |-> None]}

UserReads == {{}, {"user_read"}}

AuthRequest(authorization, x_user_id, x_user_plan, decoded, faults, user_doc) ==
    [endpoint |-> "auth", authorization |-> authorization, x_user_id |-> x_user_id,
     x_user_plan |-> x_user_plan, decoded |-> decoded, faults |-> faults,
     user_doc |-> user_doc, response |-> Unanswered]

AuthRequests ==
    {AuthRequest(a, i, p, d, f, doc) :
        a \in AuthorizationHeaders, i \in UserIdHeaders, p \in UserPlanHeaders,
        d \in Decodings, f \in UserReads, doc \in UserDocs}

\* A route with Depends(auth.get_current_user) resolves the user.
GetCurrentUser ==
    /\ resp.endpoint = "auth"
    /\ resp.response = Unanswered
    /\ resp' = [resp EXCEPT !.response =
                   get_current_user(resp.authorization, resp.x_user_id,
                                    resp.x_user_plan, resp.decoded, resp.faults,
                                    resp.user_doc)]
    /\ UNCHANGED <<chatHistory, chats, documents, cached_context,
                   context_cache_time, now, last, hist, inflight, USERS, taskStore>>

InitAuth == Start /\ hist = 0 /\ resp \in AuthRequests

NextAuth == GetCurrentUser

SpecAuth == InitAuth /\ [][NextAuth]_vars

(***************************************************************************)
(* Claims over SpecAuth.                                                   *)
(***************************************************************************)
Resolved == resp.endpoint = "auth" /\ resp.response # Unanswered

\* The value after "Bearer ", stripped; None without a bearer value.
BearerValue == extract_bearer_token(resp.authorization)

TokenVerified ==
    /\ Truthy(BearerValue)
    /\ Len(BearerValue) > 100
    /\ resp.decoded.outcome = "valid"
    /\ Truthy(resp.decoded.uid)

TokenRejected ==
    Truthy(BearerValue) /\ Len(BearerValue) > 100 /\ resp.decoded.outcome = "invalid"

NoToken == ~(Truthy(BearerValue) /\ Len(BearerValue) > 100)

\* The plan the user document holds, when it can be read and is accepted.
StoredAccepted ==
    /\ resp.faults = {}
    /\ resp.user_doc.exists
    /\ resp.user_doc.has_plan
    /\ Strip(Upper(resp.user_doc.plan)) \in AcceptedPlans

\* C14: a verified token wins; otherwise (no token, or one that failed
\* verification) the X-User-ID header is used; otherwise the bearer value is
\* the legacy email; with neither an X-User-ID nor a bearer value the answer
\* is 401; every user returned has a plan among GO, PRO, ULTRA, which is GO
\* when the header plan or the stored plan is missing or not one of them.
C14_PriorityAndPlan ==
    Resolved =>
        LET r == resp.response
        IN  /\ TokenVerified => r.method = "token" /\ r.user_id = resp.decoded.uid
            /\ ((NoToken \/ TokenRejected) /\ Truthy(resp.x_user_id)) =>
                  r.method = "headers" /\ r.user_id = resp.x_user_id
            /\ ((NoToken \/ TokenRejected) /\ ~Truthy(resp.x_user_id)
                /\ Truthy(BearerValue)) =>
                  r.method = "legacy" /\ r.user_id = Lower(BearerValue)
            /\ (~Truthy(resp.x_user_id) /\ ~Truthy(BearerValue)) => r.status = 401
            /\ r.status = 200 => r.plan \in AcceptedPlans
            /\ (r.method = "headers" /\ Truthy(resp.x_user_plan)
                /\ Strip(Upper(resp.x_user_plan)) \notin AcceptedPlans) => r.plan = GO
            /\ (r.method = "token" /\ ~StoredAccepted) => r.plan = GO
            /\ (r.method = "headers" /\ ~Truthy(resp.x_user_plan) /\ ~StoredAccepted) =>
                  r.plan = GO

\* A long token failed verification and the X-User-ID header resolved the
\* user, with GO for a plan header that is not a plan.
C14_Witness ==
    /\ Resolved
    /\ TokenRejected
    /\ resp.response.method = "headers"
    /\ resp.x_user_plan = <<"f", "r", "e", "e">>
    /\ resp.response.plan = GO


(***************************************************************************)
(* POST /promote-chat: any string may arrive as new_chat_id.               *)
(***************************************************************************)
PromoteCalls == 3

\* payload.new_chat_id: a chat id, or the name of the session document.
NewChatIds == ChatIds \cup {NEW_CHAT}

\* promote_chat: promote_new_conversation(user_id, payload.new_chat_id), 200
\* when it returned True and 400 otherwise.
PromoteChat ==
    /\ hist > 0
    /\ \E u \in Users, c \in NewChatIds :
        \E r \in {promote_new_conversation_db({}, chatHistory, chats[u], u, c)} :
            /\ chatHistory' = r.chatHistory
            /\ chats' = [chats EXCEPT ![u] = r.chats]
            /\ last' = DbCall("promote_chat", u, {}, r)
                       @@ [chat_id |-> c, new_convo_data |-> chatHistory[<<u, NEW_CHAT>>],
                           status |-> IF r.ret THEN 200 ELSE 400]
            /\ hist' = hist - 1
            /\ UNCHANGED <<documents, cached_context, context_cache_time, now, resp, inflight, USERS, taskStore>>

InitPromote == Start /\ hist = PromoteCalls /\ resp = RespInit

NextPromote ==
    \/ SaveConversation
    \/ PromoteChat

SpecPromote == InitPromote /\ [][NextPromote]_vars

\* C15: promote_new_conversation returns False when newChat is empty; when it
\* returns True, every conversation that was in newChat is stored under the
\* new chat id with its own id and chat_id set to the new chat id, the chat is
\* registered, and newChat is empty.
C15_PromoteMovesAll ==
    last.op = "promote_chat" =>
        /\ last.new_convo_data = {} => ~last.ret
        /\ last.ret =>
              /\ \A r \in last.new_convo_data :
                    Stored(r.id, last.chat_id)
                        \in chatHistory[<<last.user_id, last.chat_id>>]
              /\ last.chat_id \in chats[last.user_id]
              /\ chatHistory[<<last.user_id, NEW_CHAT>>] = {}


(***************************************************************************)
(* Concurrent requests: the handlers run on a thread pool, the cache is a  *)
(* module-level dictionary without a lock, and a call can be overtaken     *)
(* between its database accesses.                                          *)
(***************************************************************************)
\* How many calls begin.
RaceCalls == 4

\* The conversations saved, the chats and the queries of the racing calls.
RaceIds == {"k1", "k2"}

RaceChats == {None, CHAT_C}

RaceLimit == 2

\* save_conversation up to its write: clear_cached_context(user_id, chat_id).
SaveInvalidate ==
    /\ hist > 0
    /\ ~inflight.save.active
    /\ \E id \in RaceIds, c \in RaceChats :
        \E cleared \in {clear_cached_context(cached_context, context_cache_time,
                                              Conversation[id].user_id, c)} :
            /\ cached_context' = cleared.cached_context
            /\ context_cache_time' = cleared.context_cache_time
            /\ inflight' = [inflight EXCEPT
                   !.save = [active |-> TRUE, id |-> id, chat_id |-> c,
                             removed |-> cleared.removed],
                   !.stale = @ \ cleared.removed]
            /\ hist' = hist - 1
            /\ UNCHANGED <<chatHistory, chats, documents, now, last, resp, USERS, taskStore>>

\* save_conversation from chat_history_ref.set(conv_data) to its return.  A
\* get_conversation_context call of the same user and chat that has read the
\* store already, without the conversation, is overtaken.
SaveWrite ==
    /\ inflight.save.active
    /\ LET id == inflight.save.id
           c == inflight.save.chat_id
           u == Conversation[id].user_id
           g == inflight.get
       IN  /\ chatHistory' =
                  [chatHistory EXCEPT ![<<u, TargetDoc(c)>>] = SetRecord(@, Stored(id, None))]
           /\ inflight' = [inflight EXCEPT
                  !.save = NoSave,
                  !.saved = @ \cup {id},
                  !.get.overtaken =
                      @ \/ (/\ g.active /\ g.user_id = u /\ g.chat_id = c
                            /\ \A i \in 1..Len(g.fetched) : g.fetched[i].id # id)]
           /\ last' = [Call("save", u, c, NoResult, NotFound)
                           EXCEPT !.removed = inflight.save.removed]
    /\ UNCHANGED <<chats, documents, cached_context, context_cache_time, now, hist,
                   resp, USERS, taskStore>>

\* What a racing get_conversation_context call reports.
RaceGet(user_id, chat_id, r, stale_hit, overtaken) ==
    Call("get", user_id, chat_id, r, NotFound)
        @@ [stale_hit |-> stale_hit, overtaken |-> overtaken]

\* get_conversation_context up to its cache check: the store is read and the
\* cache consulted; a hit returns at once.
GetRead ==
    /\ hist > 0
    /\ ~inflight.get.active
    /\ \E c \in RaceChats, q \in Queries :
        LET fetched ==
                IF Truthy(c)
                THEN get_chat_specific_conversations(chatHistory, UA, c, RaceLimit)
                ELSE get_session_conversations(chatHistory, UA, RaceLimit)
            global == get_recent_conversations(chatHistory, chats[UA], UA, RaceLimit)
        IN  \E r \in {ContextFrom(fetched, global, cached_context, context_cache_time,
                                  now, UA, RaceLimit, c, q, NoneList)} :
              /\ IF r.hit
                 THEN /\ last' = RaceGet(UA, c, r, r.cache_key \in inflight.stale, FALSE)
                      /\ UNCHANGED <<inflight, USERS, taskStore>>
                 ELSE /\ inflight' = [inflight EXCEPT
                             !.get = [active |-> TRUE, user_id |-> UA, chat_id |-> c,
                                      current_query |-> q, fetched |-> fetched,
                                      global |-> global, overtaken |-> FALSE]]
                      /\ UNCHANGED last
              /\ hist' = hist - 1
              /\ UNCHANGED <<chatHistory, chats, documents, cached_context,
                             context_cache_time, now, resp, USERS, taskStore>>

\* get_conversation_context after a miss: the context is built from what was
\* read and stored in the cache under the key.
GetBuild ==
    /\ inflight.get.active
    /\ LET g == inflight.get
       IN  \E r \in {ContextFrom(g.fetched, g.global, EmptyMap, EmptyMap, now,
                                 g.user_id, RaceLimit, g.chat_id, g.current_query,
                                 NoneList)} :
              /\ cached_context' =
                     IF r.built
                     THEN [k \in DOMAIN cached_context \cup {r.cache_key} |->
                              IF k = r.cache_key THEN r.ret ELSE cached_context[k]]
                     ELSE cached_context
              /\ context_cache_time' =
                     IF r.built
                     THEN [k \in DOMAIN context_cache_time \cup {r.cache_key} |->
                              IF k = r.cache_key THEN now ELSE context_cache_time[k]]
                     ELSE context_cache_time
              /\ inflight' = [inflight EXCEPT
                     !.get = NoGet,
                     !.stale = IF ~r.built THEN @
                               ELSE IF g.overtaken THEN @ \cup {r.cache_key}
                               ELSE @ \ {r.cache_key}]
              /\ last' = RaceGet(g.user_id, g.chat_id, r, FALSE, g.overtaken)
    /\ UNCHANGED <<chatHistory, chats, documents, now, hist, resp, USERS, taskStore>>

\* promote_new_conversation up to its writes: get_new_conversation_data; False
\* at once when it is empty.
PromoteRead ==
    /\ hist > 0
    /\ ~inflight.promote.active
    /\ LET new_convo_data == chatHistory[<<UA, NEW_CHAT>>]
       IN  IF new_convo_data = {}
           THEN /\ last' = Call("promote", UA, CHAT_C, NoResult, NotFound)
                /\ UNCHANGED <<inflight, USERS, taskStore>>
           ELSE /\ inflight' = [inflight EXCEPT
                       !.promote = [active |-> TRUE, user_id |-> UA,
                                    chat_id |-> CHAT_C, data |-> new_convo_data]]
                /\ UNCHANGED last
    /\ hist' = hist - 1
    /\ UNCHANGED <<chatHistory, chats, documents, cached_context,
                   context_cache_time, now, resp, USERS, taskStore>>

\* promote_new_conversation from chat_ref.set to its return: what was read is
\* copied, and clear_new_conversation deletes what newChat holds by then.
PromoteWrite ==
    /\ inflight.promote.active
    /\ LET p == inflight.promote
           copied == [t \in DOMAIN chatHistory |->
                         IF t = <<p.user_id, p.chat_id>>
                         THEN MoveAll(chatHistory[t], p.data, p.chat_id)
                         ELSE chatHistory[t]]
       IN  /\ chats' = [chats EXCEPT ![p.user_id] = @ \cup {p.chat_id}]
           /\ chatHistory' = [t \in DOMAIN chatHistory |->
                                 IF t = <<p.user_id, NEW_CHAT>> THEN {} ELSE copied[t]]
           /\ last' = Call("promote", p.user_id, p.chat_id, NoResult, NotFound)
    /\ inflight' = [inflight EXCEPT !.promote = NoPromote]
    /\ UNCHANGED <<documents, cached_context, context_cache_time, now, hist, resp, USERS, taskStore>>

InitRace == Start /\ hist = RaceCalls /\ resp = RespInit

NextRace ==
    \/ SaveInvalidate
    \/ SaveWrite
    \/ GetRead
    \/ GetBuild
    \/ PromoteRead
    \/ PromoteWrite

SpecRace == InitRace /\ [][NextRace]_vars

(***************************************************************************)
(* Claims over SpecRace.                                                   *)
(***************************************************************************)
\* C16: a get_conversation_context call does not return a cached context
\* that was built from a read a returned save_conversation of the same user
\* and chat has overtaken, and a call overtaken in that way does not leave
\* the context it built in the cache.
C16_NoStaleContext ==
    last.op = "get" =>
        /\ ~last.stale_hit
        /\ ~(last.overtaken /\ last.built
             /\ last.cache_key \in DOMAIN cached_context
             /\ cached_context[last.cache_key] = last.ret)

\* The chatHistory documents of a user that hold a conversation.
HeldIn(id) ==
    {d \in HistoryDocs :
        \E r \in chatHistory[<<Conversation[id].user_id, d>>] : r.id = id}

\* C17: a conversation whose save_conversation(conv, None) has returned is
\* in newChat or in a promoted chat, also when promote_new_conversation ran
\* at the same time.
C17_SavedNotLost ==
    \A id \in inflight.saved : HeldIn(id) # {}


\* A context request that began after the save had returned was answered from
\* the cache with a context built from a read of before the write.
C16_StaleHit == last.op = "get" /\ last.stale_hit


\* The limit the caller's value stands for.
EffectiveLimit(l) == IF l.given /\ l.value >= 0 THEN l.value ELSE conversation_limit

\* C18: the effective limit is the provided one when it is a non-negative
\* integer and conversation_limit otherwise; with an effective limit of 0
\* get_conversation_context returns the no-history message, issues no read,
\* computes no cache key and leaves both cache dictionaries as they were.
C18_LimitZeroReadsNothing ==
    last.op = "get_conversation_context" =>
        IF EffectiveLimit(last.limit) = 0
        THEN /\ last.ret = NoHistory
             /\ last.reads = <<>>
             /\ last.cache_key = None
             /\ ~last.hit
             /\ ~last.built
             /\ ~last.cache_changed
        ELSE last.cache_key =
                 CacheKey(last.user_id, last.chat_id, EffectiveLimit(last.limit),
                          last.real_is_new_chat)

\* Limit 0 on a chat that holds a conversation, with a context in the cache.
C18_Witness ==
    /\ last.op = "get_conversation_context"
    /\ last.limit = SomeInt(0)
    /\ last.faults = {}
    /\ last.chat_id = CHAT_C
    /\ chatHistory[<<last.user_id, CHAT_C>>] # {}
    /\ cached_context # EmptyMap
    /\ last.ret = NoHistory


\* The ids of the chat a context request is about: the chat named, else the
\* supplied messages, else newChat.
CurrentIds ==
    IF Truthy(last.chat_id)
    THEN {r.id : r \in chatHistory[<<last.user_id, last.chat_id>>]}
    ELSE IF TruthyList(last.supplied)
    THEN {last.supplied.value[i].id : i \in 1..Len(last.supplied.value)}
    ELSE {r.id : r \in chatHistory[<<last.user_id, NEW_CHAT>>]}

Smaller(a, b) == IF a < b THEN a ELSE b

RunningLength(context) == HeaderLen(context.new) + SumBlockLen(context.blocks)

\* C20: the blocks of a built context are those of the first conversations
\* of the list, in order and numbered from 1; when a conversation is left
\* out, the first one left out would have taken the running length over
\* MAX_CONTEXT_CHARS; the header comes first and the END CONTEXT footer last.
C20_RenderedIsPrefix ==
    (last.op = "get" /\ last.built) =>
        LET blocks == last.ret.blocks
            used == last.used
            parts == ContextParts(last.ret)
        IN  /\ Len(blocks) <= Len(used)
            /\ \A i \in 1..Len(blocks) :
                  /\ blocks[i].id = used[i].id
                  /\ blocks[i].n = i
            /\ RunningLength(last.ret) <= MAX_CONTEXT_CHARS
            /\ Len(blocks) < Len(used) =>
                  RunningLength(last.ret)
                      + BlockLen(used[Len(blocks) + 1], Len(blocks) + 1)
                  > MAX_CONTEXT_CHARS
            /\ parts[1] = "header"
            /\ parts[Len(parts)] = "footer"
            /\ Len(parts) = Len(blocks) + 2

\* Rendering stopped at a conversation that did not fit although a later,
\* shorter one would have fitted.
C20_Witness ==
    /\ last.op = "get"
    /\ last.built
    /\ \E j \in (Len(last.ret.blocks) + 2)..Len(last.used) :
          RunningLength(last.ret) + BlockLen(last.used[j], Len(last.ret.blocks) + 1)
              <= MAX_CONTEXT_CHARS


(***************************************************************************)
(* Claims over SpecDb: the caller's message list.                          *)
(***************************************************************************)
\* C21: get_conversation_context leaves the caller's current_chat_messages
\* list unchanged: after the call it holds the same elements in the same
\* order as before.
C21_MessagesUnchanged ==
    last.op = "get_conversation_context" => last.messages_after = last.supplied


(***************************************************************************)
(* Claims over SpecTtl: the frame of clear_cached_context.                 *)
(***************************************************************************)
\* The cache keys that belong to the user and chat a clear_cached_context
\* call names: those of the chat when one is given, else of every chat.
ClearScope ==
    UNION {KeysOf(last.user_id, c) :
              c \in (IF Truthy(last.chat_id) THEN {last.chat_id} ELSE OptionalChatIds)}

\* C22: clear_cached_context(u, chat_id) removes from both cache dictionaries
\* exactly the entries that belong to user u (only those of chat_id when one
\* is given) and leaves the entries of every other user unchanged.
C22_ClearsOnlyOwnEntries ==
    last.op = "clear" =>
        /\ last.removed \subseteq ClearScope
        /\ ClearScope \cap DOMAIN cached_context = {}
        /\ ClearScope \cap DOMAIN context_cache_time = {}


(***************************************************************************)
(* auth.py: POST /auth/login and the token it hands out.                   *)
(***************************************************************************)
\* USERS.setdefault(email, {"plan": _plan_for_email(email) or DEFAULT_PLAN})
setdefault_user(users, email) ==
    IF email \in DOMAIN users THEN users
    ELSE [e \in DOMAIN users \cup {email} |->
             IF e = email THEN [plan |-> OrElse(plan_for_email(email), DEFAULT_PLAN)]
             ELSE users[e]]

LoginOut(status, users, email, plan) ==
    [status |-> status, USERS |-> users, access_token |-> email, user_id |-> email,
     plan |-> plan]

\* login that keeps the case of the email.
login_keep_case(users, payload_email) ==
    LET email == Strip(OrElse(payload_email, <<>>))
        registered == setdefault_user(users, email)
    IN  IF ~Truthy(email) THEN LoginOut(400, users, None, None)
        ELSE LoginOut(200, registered, email, registered[email].plan)

\* login: 400 on a blank email, else the email is registered in USERS on its
\* first login and returned as access_token and user_id with the plan kept.
login(users, payload_email) ==
    LET email == Lower(Strip(OrElse(payload_email, <<>>)))
        registered == setdefault_user(users, email)
    IN  IF ~Truthy(email) THEN LoginOut(400, users, None, None)
        ELSE LoginOut(200, registered, email, registered[email].plan)

\* get_current_user with USERS: the legacy branch registers the email and
\* answers with the plan USERS keeps for it.
get_current_user_users(users, authorization, x_user_id, x_user_plan, decoded, faults, user_doc) ==
    LET r == get_current_user(authorization, x_user_id, x_user_plan, decoded, faults, user_doc)
        email == email_from_auth(authorization)
        registered == setdefault_user(users, email)
    IN  IF r.method = "legacy"
        THEN [response |-> User("legacy", email, registered[email].plan),
              USERS |-> registered]
        ELSE [response |-> r, USERS |-> users]

\* Bound on the calls of one behaviour of logins.
LoginCalls == 3

\* An email of 101 characters: its token is as long as a Firebase ID token.
LongEmail == [i \in 1..101 |-> "x"]

\* payload.email values.
LoginEmails ==
    {<<>>, <<" ", " ">>, <<" ", "P", "r", "o", "@", "x", " ">>,
     <<"u", "l", "t", "r", "a", "p", "r", "o">>, <<"M", "E">>, <<"m", "e">>, LongEmail}

\* verify_firebase_token on a token login issued: a login token is lower-case,
\* a Firebase ID token is not, so verification raises ValueError.
LoginTokenDecoded == [outcome |-> "invalid", uid |-> None]

\* The plan each login token was first issued with.
Issued == IF last.op \in {"login", "present"} THEN last.issued ELSE EmptyMap

\* POST /auth/login
Login ==
    /\ hist > 0
    /\ \E e \in LoginEmails :
        \E r \in {login(USERS, e)} :
            /\ USERS' = r.USERS
            /\ last' = [op |-> "login", email |-> e, status |-> r.status,
                        access_token |-> r.access_token, user_id |-> r.user_id,
                        plan |-> r.plan,
                        issued |-> IF r.status = 200 /\ r.access_token \notin DOMAIN Issued
                                   THEN [t \in DOMAIN Issued \cup {r.access_token} |->
                                            IF t = r.access_token THEN r.plan ELSE Issued[t]]
                                   ELSE Issued]
            /\ hist' = hist - 1
            /\ UNCHANGED <<chatHistory, chats, documents, cached_context,
                           context_cache_time, now, resp, inflight, taskStore>>

\* A request that presents an issued token as "Bearer <token>".
PresentToken ==
    /\ hist > 0
    /\ \E t \in DOMAIN Issued, i \in UserIdHeaders, p \in UserPlanHeaders :
        \E r \in {get_current_user_users(USERS, Bearer(t), i, p, LoginTokenDecoded,
                                         {}, NoUserDoc)} :
            /\ USERS' = r.USERS
            /\ last' = [op |-> "present", token |-> t, x_user_id |-> i,
                        x_user_plan |-> p, ret |-> r.response, issued |-> Issued]
            /\ hist' = hist - 1
            /\ UNCHANGED <<chatHistory, chats, documents, cached_context,
                           context_cache_time, now, resp, inflight, taskStore>>

InitLogin == Start /\ hist = LoginCalls /\ resp = RespInit

NextLogin ==
    \/ Login
    \/ PresentToken

SpecLogin == InitLogin /\ [][NextLogin]_vars

\* C23: login with a non-blank email returns the stripped, lower-cased email
\* as user_id and access_token, with the plan the email's first login fixed
\* (ULTRA if it contains "ultra", else PRO if it contains "pro", else GO); a
\* blank email gets 400; the token presented as "Bearer <token>" without an
\* X-User-ID header resolves to the same user_id and plan.
C23_LoginRoundTrip ==
    /\ last.op = "login" =>
          LET email == Lower(Strip(last.email))
          IN  IF email = <<>> THEN last.status = 400
              ELSE /\ last.status = 200
                   /\ last.user_id = email
                   /\ last.access_token = email
                   /\ last.plan = last.issued[email]
                   /\ last.plan = (IF Contains(email, <<"u", "l", "t", "r", "a">>) THEN ULTRA
                                   ELSE IF Contains(email, <<"p", "r", "o">>) THEN PRO
                                   ELSE GO)
    /\ (last.op = "present" /\ last.x_user_id = None) =>
          /\ last.ret.status = 200
          /\ last.ret.user_id = last.token
          /\ last.ret.plan = last.issued[last.token]

\* " Pro@x " logged in, its token was presented with a plan header and no
\* X-User-ID, and the answer is pro@x with plan PRO.
C23_Witness ==
    /\ last.op = "present"
    /\ last.x_user_id = None
    /\ last.x_user_plan = <<"f", "r", "e", "e">>
    /\ last.token = <<"p", "r", "o", "@", "x">>
    /\ last.ret = User("legacy", last.token, PRO)
    /\ DOMAIN USERS = {last.token}


(***************************************************************************)
(* main.py: the user id the handlers read and write under.                 *)
(***************************************************************************)
\* user_id = (x_user_id or user["user_id"]).strip() or user["user_id"]
request_user_id(x_user_id, user) ==
    OrElse(Strip(OrElse(x_user_id, user.user_id)), user.user_id)

\* X-User-ID values: absent, empty, only whitespace, padded, plain.
UserIdOverrides == {None, <<>>, <<" ">>, <<" ", "h", "1", " ">>, <<"h", "1">>}

Routes == {"chat", "upload-file", "promote-chat"}

\* A request to one of the three routes; Depends(get_current_user) and the
\* handler receive the same headers.
UserIdRequests ==
    {AuthRequest(a, i, None, d, {}, NoUserDoc) @@ [route |-> r, user_id |-> None] :
        a \in {None, Bearer(<<"m", "e">>), Bearer(LongToken)}, i \in UserIdOverrides,
        d \in Decodings, r \in Routes}

\* The handler of resp.route, entered once the user is resolved, takes its
\* user id.
HandlerUserId(route) ==
    /\ resp.endpoint = "auth"
    /\ resp.route = route
    /\ resp.response.status = 200
    /\ resp.user_id = None
    /\ resp' = [resp EXCEPT !.user_id = request_user_id(resp.x_user_id, resp.response)]
    /\ UNCHANGED <<chatHistory, chats, documents, cached_context,
                   context_cache_time, now, last, hist, inflight, USERS, taskStore>>

\* _ai_run_handler, line 228 (after the plan check passed).
ChatUserId == HandlerUserId("chat")

\* upload_file, line 346.
UploadFileUserId == HandlerUserId("upload-file")

\* promote_chat, line 438.
PromoteChatUserId == HandlerUserId("promote-chat")

InitUserId == Start /\ hist = 0 /\ resp \in UserIdRequests

NextUserId ==
    \/ GetCurrentUser
    \/ ChatUserId
    \/ UploadFileUserId
    \/ PromoteChatUserId

SpecUserId == InitUserId /\ [][NextUserId]_vars

\* C24: the user id a handler uses is the stripped X-User-ID header when the
\* header is present and not blank, else the authenticated user's id, and it
\* is never empty or only whitespace.
C24_UserIdNeverBlank ==
    (resp.endpoint = "auth" /\ resp.user_id # None) =>
        /\ resp.user_id =
              (IF Truthy(resp.x_user_id) /\ Strip(resp.x_user_id) # <<>>
               THEN Strip(resp.x_user_id)
               ELSE resp.response.user_id)
        /\ Strip(resp.user_id) # <<>>


(***************************************************************************)
(* auth.py: GET /auth/me.                                                  *)
(***************************************************************************)
\* The value x_user_id and x_user_plan have when get_current_user is called
\* as a plain function with one argument: their defaults, the Header(...)
\* objects, which are truthy and have no str methods.
HeaderObject == <<"<Header>">>

\* An exception no handler catches: the framework answers 500.
InternalServerError ==
    [status |-> 500, method |-> "none", user_id |-> None, plan |-> None]

\* me: get_current_user(authorization).  Past the token branch "if
\* x_user_id:" and "if x_user_plan:" are true of the Header objects and
\* x_user_plan.upper() raises AttributeError.
me(authorization, decoded, faults, user_doc) ==
    LET r == get_current_user(authorization, HeaderObject, HeaderObject, decoded,
                              faults, user_doc)
    IN  IF r.method = "headers" THEN InternalServerError ELSE r

MeRequests ==
    {[AuthRequest(a, None, None, d, f, doc) EXCEPT !.endpoint = "me"] :
        a \in AuthorizationHeaders, d \in Decodings, f \in UserReads, doc \in UserDocs}

\* GET /auth/me
Me ==
    /\ resp.endpoint = "me"
    /\ resp.response = Unanswered
    /\ resp' = [resp EXCEPT !.response =
                   me(resp.authorization, resp.decoded, resp.faults, resp.user_doc)]
    /\ UNCHANGED <<chatHistory, chats, documents, cached_context,
                   context_cache_time, now, last, hist, inflight, USERS, taskStore>>

InitMe == Start /\ hist = 0 /\ resp \in MeRequests

NextMe == Me

SpecMe == InitMe /\ [][NextMe]_vars

\* C25: GET /auth/me answers, for any Authorization header, what
\* get_current_user gives for a request with that header and neither
\* X-User-ID nor X-User-Plan: the same user record, or 401.
C25_MeEqualsGetCurrentUser ==
    (resp.endpoint = "me" /\ resp.response # Unanswered) =>
        resp.response = get_current_user(resp.authorization, None, None, resp.decoded,
                                         resp.faults, resp.user_doc)


(***************************************************************************)
(* Claims over SpecHttp: /upload-file and its temporary file.              *)
(***************************************************************************)
\* C26: when process_uploaded_file returns None, /upload-file answers 400
\* "Failed to process file"; and on every path that created the temporary
\* file, the file is gone when the response is produced.
C26_UnprocessedFileIs400 ==
    (Answered /\ resp.endpoint = "/upload-file" /\ resp.tmp.created) =>
        /\ ~resp.tmp.exists
        /\ resp.processed = "none" =>
              /\ resp.response.status = 400
              /\ resp.response.detail = "Failed to process file"


(***************************************************************************)
(* firestore_manager.py: saving tasks and reading the pending ones.        *)
(***************************************************************************)
\* A task whose user_id attribute is missing.
OrphanTask == Task("t6", None, "pending", 0, 2)

\* The Task objects callers save.
Tasks == {TaskDocs[i] : i \in 1..Len(TaskDocs)} \cup {OrphanTask}

\* save_task: users/{user_id}/tasks/{id} when the task has a user_id, else
\* the top-level collection tasks/{id}.
save_task(store, task) ==
    IF ~Truthy(task.user_id)
    THEN [store EXCEPT !.global = {t \in @ : t.id # task.id} \cup {task}]
    ELSE [store EXCEPT !.users[task.user_id] = {t \in @ : t.id # task.id} \cup {task}]

\* users/*/tasks as the stream calls give them: by user, then by document id.
StreamTasks(store) ==
    LET stored(t) == t \in store.users[t.user_id]
    IN  SelectSeq(TaskDocs, stored)

\* Bound on the calls of one behaviour with tasks.
TaskCalls == 3

SaveTask ==
    /\ hist > 0
    /\ \E task \in Tasks :
        /\ taskStore' = save_task(taskStore, task)
        /\ last' = [op |-> "save_task", user_id |-> task.user_id, task |-> task]
    /\ hist' = hist - 1
    /\ UNCHANGED <<chatHistory, chats, documents, cached_context,
                   context_cache_time, now, resp, inflight, USERS>>

GetPendingTasks ==
    /\ hist > 0
    /\ \E u \in OptionalUsers :
        last' = [op |-> "get_pending_tasks", user_id |-> u,
                 ret |-> get_pending_tasks_db({}, StreamTasks(taskStore), u, now).ret]
    /\ hist' = hist - 1
    /\ UNCHANGED <<chatHistory, chats, documents, cached_context,
                   context_cache_time, now, resp, inflight, USERS, taskStore>>

InitTasks == Start /\ hist = TaskCalls /\ resp = RespInit

NextTasks ==
    \/ SaveTask
    \/ GetPendingTasks

SpecTasks == InitTasks /\ [][NextTasks]_vars

\* Every task save_task has written.
WrittenTasks == taskStore.global \cup UNION {taskStore.users[u] : u \in Users}

\* C27: get_pending_tasks() returns exactly the tasks written by save_task
\* that are pending and not scheduled in the future, with or without a
\* user_id, by priority descending then scheduled_for ascending;
\* get_pending_tasks(user_id) returns those of that user.
C27_PendingTasksComplete ==
    last.op = "get_pending_tasks" =>
        LET ret == last.ret
            wanted == {t \in WrittenTasks :
                          /\ t.status = "pending"
                          /\ t.scheduled_for <= now
                          /\ Truthy(last.user_id) => t.user_id = last.user_id}
        IN  /\ {ret[i] : i \in 1..Len(ret)} = wanted
            /\ Len(ret) = Cardinality(wanted)
            /\ \A i, j \in 1..Len(ret) :
                  i < j => \/ ret[i].priority > ret[j].priority
                           \/ /\ ret[i].priority = ret[j].priority
                              /\ ret[i].scheduled_for <= ret[j].scheduled_for


(***************************************************************************)
(* Claims over SpecDocs: which documents the context holds.                *)
(***************************************************************************)
\* The ids a get_documents_context call is about: document_ids when it is
\* given, else document_id.
ListedIds ==
    IF last.document_ids.given THEN last.document_ids.value
    ELSE IF Truthy(last.document_id) THEN <<last.document_id>>
    ELSE <<>>

\* The position at which an id is first listed.
FirstListed(id) ==
    CHOOSE j \in 1..Len(ListedIds) :
        ListedIds[j] = id /\ \A k \in 1..(j - 1) : ListedIds[k] # id

\* C28: document_ids has priority over document_id; when ids are given the
\* result holds every listed document stored for the user, once each, in the
\* order listed and marked ATTACHED, and no other document; when no id is
\* given it holds the user's most recent documents, at most limit of them.
C28_ListedDocumentsOnce ==
    last.op = "docs" =>
        LET parts == last.ret.parts
            stored == documents[last.user_id]
        IN  IF ListedIds # <<>>
            THEN /\ {parts[i].id : i \in 1..Len(parts)} =
                        {ListedIds[j] : j \in 1..Len(ListedIds)} \cap StoredDocIds
                 /\ \A i, j \in 1..Len(parts) : parts[i].id = parts[j].id => i = j
                 /\ \A i, j \in 1..Len(parts) :
                       i < j => FirstListed(parts[i].id) < FirstListed(parts[j].id)
                 /\ \A i \in 1..Len(parts) : parts[i].attached
            ELSE /\ Len(parts) <= last.limit
                 /\ \A i \in 1..Len(parts) : parts[i].id = stored[i] /\ ~parts[i].attached
                 /\ Len(parts) = Smaller(last.limit, Len(stored))


(***************************************************************************)
(* baby_final.py: run_assistant_by_plan with the API keys of the           *)
(* environment.                                                            *)
(***************************************************************************)
\* What the backend of a model does: "if not gemini_key" / "if not grok_key"
\* / "if not gemini_key or not grok_key" return the error dict, and an
\* exception inside the try block returns one too.
BackendOutcome(model, gemini_key, grok_key, provider) ==
    LET missing ==
            \/ model \in {gemini, mixed} /\ ~Truthy(gemini_key)
            \/ model \in {grok, mixed} /\ ~Truthy(grok_key)
    IN  IF missing THEN "no_key"
        ELSE IF provider = "raises" THEN "provider_error"
        ELSE "response"

\* plan arguments, API keys as get_api_keys returns them, and the provider.
PlanArguments ==
    {GO, PRO, ULTRA, <<" ", "g", "o", " ">>, <<"p", "r", "o">>, <<"U", "l", "t", "r", "a">>,
     <<"F", "R", "E", "E">>, <<>>, <<" ">>}

ApiKeys == {None, <<>>, <<"k">>}

Providers == {"answers", "raises"}

PlanRequest(plan, gemini_key, grok_key, provider) ==
    [op |-> "plan_request", plan |-> plan, gemini_key |-> gemini_key,
     grok_key |-> grok_key, provider |-> provider]

\* run_assistant_by_plan(plan, prompt, ...)
RunAssistantByPlan ==
    /\ last.op = "plan_request"
    /\ LET plan_upper == Strip(Upper(last.plan))
           model == IF plan_upper \in DOMAIN PLAN_TO_MODEL
                    THEN PLAN_TO_MODEL[plan_upper] ELSE None
           outcome == BackendOutcome(model, last.gemini_key, last.grok_key, last.provider)
       IN  last' = [op |-> "run_assistant_by_plan", plan |-> last.plan,
                    outcome |-> outcome, ret |-> run_assistant_by_plan(last.plan, outcome)]
    /\ UNCHANGED <<chatHistory, chats, documents, cached_context,
                   context_cache_time, now, hist, resp, inflight, USERS, taskStore>>

InitPlans ==
    /\ chatHistory = [t \in Users \X HistoryDocs |-> {}]
    /\ chats = [u \in Users |-> {}]
    /\ documents = [u \in Users |-> <<>>]
    /\ cached_context = EmptyMap
    /\ context_cache_time = EmptyMap
    /\ now = 0
    /\ last \in {PlanRequest(p, g, x, v) :
                    p \in PlanArguments, g \in ApiKeys, x \in ApiKeys, v \in Providers}
    /\ inflight = Idle
    /\ USERS = EmptyMap
    /\ taskStore = NoTasks
    /\ hist = 0
    /\ resp = RespInit

NextPlans == RunAssistantByPlan

SpecPlans == InitPlans /\ [][NextPlans]_vars

\* C29: PLAN_TO_MODEL and PLAN_TO_FUNCTION agree; for a plan of the table
\* run_assistant_by_plan raises nothing and returns a dict whose model is
\* allowed_function_for_plan(plan), with "response" when the backend
\* succeeded and "error" without "response" when a key is missing or the
\* provider fails; it raises ValueError exactly when the upper-cased,
\* stripped plan is not in the table.
C29_PlanTablesAgree ==
    /\ PLAN_TO_MODEL = PLAN_TO_FUNCTION
    /\ last.op = "run_assistant_by_plan" =>
          /\ last.ret.raised \in {None, ValueError}
          /\ last.ret.raised = ValueError <=> Strip(Upper(last.plan)) \notin {GO, PRO, ULTRA}
          /\ last.plan \in {GO, PRO, ULTRA} =>
                /\ last.ret.raised = None
                /\ last.ret.result.model = allowed_function_for_plan(last.plan)
                /\ last.ret.result.kind =
                      (IF last.outcome = "response" THEN "response" ELSE "error")

\* ULTRA with the Gemini key set and the Grok key missing: mixed answers with
\* an error dict and nothing is raised.
C29_Witness ==
    /\ last.op = "run_assistant_by_plan"
    /\ last.plan = ULTRA
    /\ last.outcome = "no_key"
    /\ last.ret.raised = None
    /\ last.ret.result = [model |-> mixed, kind |-> "error"]

====
